---- MODULE Spec2Model ----
(***************************************************************************)
(* A model of the ai-sentiment-scanner comparison code: the comparison     *)
(* routines (core/version_analyzer.py, core/topic_analyzer.py,             *)
(* app/components/analysis.py), the narrative summarizer                   *)
(* (core/summarizer.py) and the two Streamlit page runs (app/main.py,      *)
(* app/pages/period_comparison.py).                                        *)
(*                                                                         *)
(* Floating-point values are modelled as exact rationals [num, den] in     *)
(* lowest terms; den = 0 stands for NaN (the mean of an empty column).     *)
(***************************************************************************)
EXTENDS Integers, Sequences, FiniteSets, TLC

VARIABLES
    version1,   \* first frame handed to a comparison routine (population A)
    version2,   \* second frame handed to a comparison routine (population B)
    km1,        \* what the clustering answered for the first corpus
    km2,        \* what the clustering answered for the second corpus
    call,       \* the comparison routine that has been invoked, "none" before
    outcome,    \* what that routine did: returned a value or raised
    sArgs,      \* the arguments a summarizer entry point is given
    sCall,      \* the summarizer entry point that has been invoked, "none" before
    sCollab,    \* the collaborator's answer: "not_called", "ok" or "failed"
    sSent,      \* the prompt handed to the text-generation collaborator, if any
    sOut,       \* what the entry point did: returned a value or raised
    sidebar,    \* the inputs of the page: application ids, periods, review count
    provider,   \* the reviews the provider holds for each application
    snapshots,  \* today's snapshot files, by application name
    cache,      \* the summary cache files, by path
    page,       \* what the last run of the page script showed and invoked
    cacheCall,  \* the last direct call of cached_summary and what it did
    cacheOrigin, \* for each summary file a call wrote: that call's request and result
    writing     \* the file a concurrent run has opened for writing and not yet closed

engineVars == <<version1, version2, km1, km2, call, outcome>>

summarizerVars == <<sArgs, sCall, sCollab, sSent, sOut>>

pageVars == <<sidebar, provider, snapshots, cache, page, cacheCall, cacheOrigin, writing>>

vars == <<version1, version2, km1, km2, call, outcome,
          sArgs, sCall, sCollab, sSent, sOut,
          sidebar, provider, snapshots, cache, page, cacheCall, cacheOrigin, writing>>

-----------------------------------------------------------------------------
(* Bounds of the model                                                     *)

\* each frame holds 0..MaxCopies copies of each kind of row
MaxCopies == 3
\* the clustering run labels its clusters from a window shifted by 0..MaxShift
MaxShift == 1
\* a list of texts is given as at most MaxRuns runs of equal-length texts
MaxRuns == 3
\* period payloads differ by 0..MaxUnits steps of 1/20 (topics) and 1/10 (themes)
MaxUnits == 2
\* cached_summary and the cache maintenance are called at most MaxCalls times
MaxCalls == 2
\* a review text speaks of at most MaxParts things
MaxParts == 2
\* a frame of review texts that name versions has at most MaxRows rows
MaxRows == 3

-----------------------------------------------------------------------------
(* Rational arithmetic standing for Python / numpy floats                  *)

Abs(i) == IF i < 0 THEN -i ELSE i

RECURSIVE GCD(_, _)
GCD(a, b) == IF b = 0 THEN a ELSE GCD(b, a % b)

NaN == [num |-> 0, den |-> 0]

IsNaN(r) == r.den = 0

\* the rational n/d in lowest terms, NaN when d = 0
Rat(n, d) ==
    IF d = 0 THEN NaN
    ELSE LET g == GCD(Abs(n), Abs(d))
             s == IF d < 0 THEN -1 ELSE 1
         IN  [num |-> s * (n \div g), den |-> s * (d \div g)]

RatInt(i) == [num |-> i, den |-> 1]

RatAdd(a, b) ==
    IF IsNaN(a) \/ IsNaN(b) THEN NaN
    ELSE Rat(a.num * b.den + b.num * a.den, a.den * b.den)

RatSub(a, b) ==
    IF IsNaN(a) \/ IsNaN(b) THEN NaN
    ELSE Rat(a.num * b.den - b.num * a.den, a.den * b.den)

RatDivInt(a, n) == IF IsNaN(a) THEN NaN ELSE Rat(a.num, a.den * n)

RatLeq(a, b) == a.num * b.den <= b.num * a.den

RECURSIVE RatSum(_)
RatSum(s) == IF s = <<>> THEN RatInt(0) ELSE RatAdd(Head(s), RatSum(Tail(s)))

\* pandas Series.mean() / sum(xs)/len(xs): NaN on an empty series
RatMean(s) == IF s = <<>> THEN NaN ELSE RatDivInt(RatSum(s), Len(s))

-----------------------------------------------------------------------------
(* Theme vocabulary: core/topic_analyzer.py, tag_reviews_by_theme          *)

THEMES == <<"UX", "Performance", "Features", "Bugs", "Content", "Support">>

ThemeNames == {THEMES[i] : i \in 1..Len(THEMES)}

themes ==
    [UX          |-> <<"interface", "design", "layout", "user experience", "ui",
                       "navigation", "menu">>,
     Performance |-> <<"slow", "lag", "crash", "freeze", "speed", "performance",
                       "battery">>,
     Features    |-> <<"feature", "function", "option", "capability", "tool">>,
     Bugs        |-> <<"bug", "error", "issue", "problem", "glitch", "not working">>,
     Content     |-> <<"content", "information", "data", "update", "news">>,
     Support     |-> <<"support", "help", "customer service", "response", "contact">>]

-----------------------------------------------------------------------------
(* Outcomes of a call                                                      *)

NoOutcome == [status |-> "none"]

Returned(v) == [status |-> "returned", value |-> v]

\* exc: the exception class; origin: the function whose body raised it
Raised(exc, origin) == [status |-> "raised", exc |-> exc, origin |-> origin]

-----------------------------------------------------------------------------
(* Review frames (pandas DataFrames)                                       *)
(* A text is its characters (body, len), the theme keywords its lower-cased *)
(* form contains (kw) and the polarity TextBlob gives it.                  *)

RECURSIVE SeqOfSet(_)
SeqOfSet(S) ==
    IF S = {} THEN <<>>
    ELSE LET m == CHOOSE x \in S : \A y \in S : x <= y
         IN  <<m>> \o SeqOfSet(S \ {m})

Column(df, c) == [i \in 1..Len(df.rows) |-> df.rows[i][c]]

HasColumn(df, c) == c \in df.cols

TextUX ==
    [body     |-> "nice interface and design, great feature",
     len      |-> Len("nice interface and design, great feature"),
     kw       |-> {"interface", "design", "feature"},
     polarity |-> Rat(4, 5)]

TextBug ==
    [body     |-> "bug: crash with error, not working",
     len      |-> Len("bug: crash with error, not working"),
     kw       |-> {"bug", "crash", "error", "not working"},
     polarity |-> Rat(-1, 2)]

\* the two kinds of row the frames are built from
PosKind == [text |-> TextUX, sentiment |-> TextUX.polarity, stars |-> 5,
            engagement |-> 3, date |-> 1]

NegKind == [text |-> TextBug, sentiment |-> TextBug.polarity, stars |-> 1,
            engagement |-> 0, date |-> 2]

BaseCols == {"text", "sentiment", "engagement", "date"}

\* a row of a frame whose star-rating column is named ratingCol
Row(kind, ratingCol) ==
    [c \in BaseCols \cup {ratingCol} |->
        IF c = ratingCol THEN kind.stars ELSE kind[c]]

\* the frame of a PosKind rows followed by b NegKind rows
Frame(ratingCol, a, b) ==
    [cols |-> BaseCols \cup {ratingCol},
     rows |-> [i \in 1..(a + b) |->
                 IF i <= a THEN Row(PosKind, ratingCol) ELSE Row(NegKind, ratingCol)]]

Frames ==
    {Frame(rc, a, b) : rc \in {"rating", "score"}, a \in 0..MaxCopies, b \in 0..MaxCopies}

-----------------------------------------------------------------------------
(* core/topic_analyzer.py                                                  *)

\* default of the n_topics parameter
DefaultTopics == 5

NoRun == [labels |-> <<>>, sizes |-> <<>>]

\* What TfidfVectorizer + KMeans can answer for n texts: cluster i is labelled
\* by the id of its top-terms string and holds sizes[i] texts.  The runs drawn
\* here label the clusters from a shifted window (so two runs share some labels
\* and not others), may give two clusters the same top terms, and put the texts
\* beyond one per cluster into the first or the last cluster.
KMeansRuns(n, n_topics) ==
    IF n < n_topics THEN {NoRun}
    ELSE {[labels |-> [i \in 1..n_topics |->
                          IF dup /\ i = 2 THEN 1 + shift ELSE i + shift],
           sizes  |-> [i \in 1..n_topics |->
                          IF i = big THEN 1 + (n - n_topics) ELSE 1]] :
            shift \in 0..MaxShift, dup \in BOOLEAN, big \in {1, n_topics}}

\* sorted(topics, key=lambda x: x[1], reverse=True): stable, descending
RECURSIVE InsertByFreq(_, _)
InsertByFreq(sorted, t) ==
    IF sorted = <<>> THEN <<t>>
    ELSE IF RatLeq(t[2], Head(sorted)[2])
         THEN <<Head(sorted)>> \o InsertByFreq(Tail(sorted), t)
         ELSE <<t>> \o sorted

RECURSIVE SortByFreqDesc(_)
SortByFreqDesc(topics) ==
    IF topics = <<>> THEN <<>>
    ELSE InsertByFreq(SortByFreqDesc(SubSeq(topics, 1, Len(topics) - 1)),
                      topics[Len(topics)])

\* extract_topics(texts, n_topics): fit_transform raises ValueError on an empty
\* corpus, KMeans raises ValueError when n_samples < n_clusters
extract_topics(texts, n_topics, km) ==
    IF Len(texts) = 0 \/ Len(texts) < n_topics
    THEN Raised("ValueError", "extract_topics")
    ELSE Returned(SortByFreqDesc(
            [i \in 1..n_topics |-> <<km.labels[i], Rat(km.sizes[i], Len(texts))>>]))

\* dict(list of pairs): a later pair with the same key replaces an earlier one
Dict(pairs) ==
    [k \in {pairs[i][1] : i \in 1..Len(pairs)} |->
        LET last == CHOOSE i \in 1..Len(pairs) :
                        /\ pairs[i][1] = k
                        /\ \A j \in (i + 1)..Len(pairs) : pairs[j][1] # k
        IN  pairs[last][2]]

\* d.get(k, 0)
Get(d, k) == IF k \in DOMAIN d THEN d[k] ELSE RatInt(0)

\* a merge that keeps only the topics both runs found
AllTopics_Intersection(topics1, topics2) == (DOMAIN topics1) \cap (DOMAIN topics2)

\* the keys of the merged map, all_topics = set(a.keys()) | set(b.keys())
AllTopics(topics1, topics2) == (DOMAIN topics1) \cup (DOMAIN topics2)

\* the count of the keywords present, not divided by their number
ThemeScore_NotNormalized(text, theme) ==
    RatInt(Cardinality({i \in 1..Len(themes[theme]) : themes[theme][i] \in text.kw}))

\* tag_reviews_by_theme(texts): per text, keywords present / len(keywords);
\* the vectorizer it fits first raises ValueError on an empty corpus
ThemeScore(text, theme) ==
    Rat(Cardinality({i \in 1..Len(themes[theme]) : themes[theme][i] \in text.kw}),
        Len(themes[theme]))

tag_reviews_by_theme(texts) ==
    IF Len(texts) = 0
    THEN Raised("ValueError", "tag_reviews_by_theme")
    ELSE Returned([i \in 1..Len(texts) |->
                     [theme \in ThemeNames |-> ThemeScore(texts[i], theme)]])

\* analyze_topic_changes(current_texts, previous_texts, n_topics)
analyze_topic_changes(current_texts, previous_texts, n_topics, kmCur, kmPrev) ==
    LET cur  == extract_topics(current_texts, n_topics, kmCur)
        prev == extract_topics(previous_texts, n_topics, kmPrev)
    IN  IF cur.status = "raised" THEN cur
        ELSE IF prev.status = "raised" THEN prev
        ELSE LET current_topics  == Dict(cur.value)
                 previous_topics == Dict(prev.value)
             IN  Returned([topic \in AllTopics(current_topics, previous_topics) |->
                             RatSub(Get(current_topics, topic),
                                    Get(previous_topics, topic))])

-----------------------------------------------------------------------------
(* core/version_analyzer.py: compare_versions                              *)

\* the sentiment comparison with the subtraction the other way round
CompareSentiment_AMinusB(v1, v2) ==
    [version1 |-> RatMean(Column(v1, "sentiment")),
     version2 |-> RatMean(Column(v2, "sentiment")),
     delta    |-> RatSub(RatMean(Column(v1, "sentiment")),
                         RatMean(Column(v2, "sentiment")))]

\* lines 52-57
CompareSentiment(v1, v2) ==
    [version1 |-> RatMean(Column(v1, "sentiment")),
     version2 |-> RatMean(Column(v2, "sentiment")),
     delta    |-> RatSub(RatMean(Column(v2, "sentiment")),
                         RatMean(Column(v1, "sentiment")))]

\* lines 63-73
CompareTopics(topics1, topics2) ==
    [topic \in AllTopics(topics1, topics2) |->
        [version1 |-> Get(topics1, topic),
         version2 |-> Get(topics2, topic),
         delta    |-> RatSub(Get(topics2, topic), Get(topics1, topic))]]

\* lines 79-85: sum(scores) / len(scores) if scores else 0
ThemeAvg(theme_scores, theme) ==
    IF theme_scores = <<>> THEN RatInt(0)
    ELSE RatMean([i \in 1..Len(theme_scores) |-> theme_scores[i][theme]])

\* lines 87-94
CompareThemes(themes1, themes2) ==
    [theme \in ThemeNames |->
        [version1 |-> ThemeAvg(themes1, theme),
         version2 |-> ThemeAvg(themes2, theme),
         delta    |-> RatSub(ThemeAvg(themes2, theme), ThemeAvg(themes1, theme))]]

IntColumn(df, c) == [i \in 1..Len(df.rows) |-> RatInt(df.rows[i][c])]

\* lines 96-108
CompareMetrics(v1, v2) ==
    [review_count |->
        [version1 |-> Len(v1.rows),
         version2 |-> Len(v2.rows),
         delta    |-> Len(v2.rows) - Len(v1.rows)],
     average_rating |->
        [version1 |-> RatMean(IntColumn(v1, "rating")),
         version2 |-> RatMean(IntColumn(v2, "rating")),
         delta    |-> RatSub(RatMean(IntColumn(v2, "rating")),
                             RatMean(IntColumn(v1, "rating")))]]

\* the first column of cs that one of the two frames lacks, "" when none
MissingColumn(v1, v2, cs) ==
    LET lacking == {i \in 1..Len(cs) : ~HasColumn(v1, cs[i]) \/ ~HasColumn(v2, cs[i])}
    IN  IF lacking = {} THEN ""
        ELSE cs[CHOOSE i \in lacking : \A j \in lacking : i <= j]

\* compare_versions(version1, version2), statement by statement; the first
\* statement that raises ends the call with that exception
compare_versions(v1, v2, k1, k2) ==
    IF MissingColumn(v1, v2, <<"sentiment", "text">>) # ""
    THEN Raised("KeyError", "compare_versions")
    ELSE
    LET t1 == extract_topics(Column(v1, "text"), DefaultTopics, k1)
        t2 == extract_topics(Column(v2, "text"), DefaultTopics, k2)
        th1 == tag_reviews_by_theme(Column(v1, "text"))
        th2 == tag_reviews_by_theme(Column(v2, "text"))
    IN  IF t1.status = "raised" THEN t1
        ELSE IF t2.status = "raised" THEN t2
        ELSE IF th1.status = "raised" THEN th1
        ELSE IF th2.status = "raised" THEN th2
        ELSE IF MissingColumn(v1, v2, <<"rating">>) # ""
             THEN Raised("KeyError", "compare_versions")
        ELSE Returned(
                [sentiment |-> CompareSentiment(v1, v2),
                 topics    |-> CompareTopics(Dict(t1.value), Dict(t2.value)),
                 themes    |-> CompareThemes(th1.value, th2.value),
                 metrics   |-> CompareMetrics(v1, v2)])

-----------------------------------------------------------------------------
(* core/version_analyzer.py: extract_version_from_review and               *)
(* group_reviews_by_version; components/version_ui.py:                     *)
(* display_version_selector.  A string is read character by character.     *)

\* the characters of a string, and the string of a list of characters
Chars(str) == [i \in 1..Len(str) |-> SubSeq(str, i, i)]

RECURSIVE Str(_)
Str(chars) == IF chars = <<>> THEN "" ELSE Head(chars) \o Str(Tail(chars))

DigitChars == <<"0", "1", "2", "3", "4", "5", "6", "7", "8", "9">>

IsDigit(c) == \E d \in 1..Len(DigitChars) : DigitChars[d] = c

\* str.lower() on the upper-case letters the review texts use
UpperToLower == [V |-> "v", E |-> "e", R |-> "r", S |-> "s", I |-> "i", O |-> "o",
                 N |-> "n", U |-> "u", P |-> "p", D |-> "d", A |-> "a", T |-> "t"]

Lower(chars) ==
    [i \in 1..Len(chars) |->
        IF chars[i] \in DOMAIN UpperToLower THEN UpperToLower[chars[i]] ELSE chars[i]]

\* the position after the longest run of digits (\d+) that starts at i
RECURSIVE DigitRunEnd(_, _)
DigitRunEnd(t, i) ==
    IF i <= Len(t) /\ IsDigit(t[i]) THEN DigitRunEnd(t, i + 1) ELSE i

\* the position after the longest run of blanks (\s+) that starts at i
RECURSIVE SpaceRunEnd(_, _)
SpaceRunEnd(t, i) ==
    IF i <= Len(t) /\ t[i] = " " THEN SpaceRunEnd(t, i + 1) ELSE i

\* the literal word stands at position i
LitAt(t, i, word) ==
    /\ i + Len(word) - 1 <= Len(t)
    /\ SubSeq(t, i, i + Len(word) - 1) = Chars(word)

HasDot(t, i) == i <= Len(t) /\ t[i] = "."

\* \d+\.\d+(?:\.\d+)? at position i: the positions after the match, in the
\* order the matcher tries them (three segments before two).  A shorter run
\* of digits is tried last and leaves a digit next, which no pattern accepts.
NumEnds(t, i) ==
    LET Third(b) == IF HasDot(t, b) /\ DigitRunEnd(t, b + 1) > b + 1
                    THEN <<DigitRunEnd(t, b + 1), b>>
                    ELSE <<b>>
        Second(a) == IF HasDot(t, a) /\ DigitRunEnd(t, a + 1) > a + 1
                     THEN Third(DigitRunEnd(t, a + 1))
                     ELSE <<>>
    IN  IF DigitRunEnd(t, i) > i THEN Second(DigitRunEnd(t, i)) ELSE <<>>

NoMatch == [found |-> FALSE]

Match(start, group) == [found |-> TRUE, start |-> start, group |-> group]

\* a word followed by the number: word\s+(number), or word(number) when no
\* blank is asked for
WordThenNum(t, i, word, blank) ==
    LET Num(from) == IF NumEnds(t, from) = <<>> THEN NoMatch
                     ELSE Match(i, Str(SubSeq(t, from, NumEnds(t, from)[1] - 1)))
        After(w) == IF blank
                    THEN IF SpaceRunEnd(t, w) > w THEN Num(SpaceRunEnd(t, w)) ELSE NoMatch
                    ELSE Num(w)
    IN  IF LitAt(t, i, word) THEN After(i + Len(word)) ELSE NoMatch

\* (number)\s+word: the first end of the number that blanks and the word follow
NumThenWord(t, i, word) ==
    LET Follows(e) == SpaceRunEnd(t, e) > e /\ LitAt(t, SpaceRunEnd(t, e), word)
        First(ends, good) ==
            IF good = {} THEN NoMatch
            ELSE Match(i, Str(SubSeq(t, i, ends[CHOOSE k \in good : \A j \in good : k <= j] - 1)))
        Tried(ends) == First(ends, {k \in 1..Len(ends) : Follows(ends[k])})
    IN  Tried(NumEnds(t, i))

\* the four patterns, in the order of the list `patterns`
PatternCount == 4

MatchAt(pattern, t, i) ==
    CASE pattern = 1 -> WordThenNum(t, i, "version", TRUE)
      [] pattern = 2 -> WordThenNum(t, i, "v", FALSE)
      [] pattern = 3 -> NumThenWord(t, i, "version")
      [] pattern = 4 -> WordThenNum(t, i, "update", TRUE)

\* re.search(pattern, text): the match at the leftmost position that has one
Search(pattern, t) ==
    LET Leftmost(at) == IF at = {} THEN NoMatch
                        ELSE MatchAt(pattern, t, CHOOSE i \in at : \A j \in at : i <= j)
    IN  Leftmost({i \in 1..Len(t) : MatchAt(pattern, t, i).found})

\* a returned version, and the None returned when nothing matches
NoVersion == [entry |-> "None"]

Version(str) == [entry |-> "str", value |-> str]

\* the pattern whose match starts earliest in the text, the earlier pattern
\* among those that start together
WinningPattern_Leftmost(matches) ==
    CHOOSE p \in DOMAIN matches :
        \A q \in DOMAIN matches :
            \/ matches[p].start < matches[q].start
            \/ matches[p].start = matches[q].start /\ p <= q

\* for pattern in patterns: ... if match: return: the first pattern of the
\* list that matches
WinningPattern(matches) == CHOOSE p \in DOMAIN matches : \A q \in DOMAIN matches : p <= q

\* extract_version_from_review(review_text)
extract_version_from_review(review_text) ==
    LET Pick(matches) == IF DOMAIN matches = {} THEN NoVersion
                         ELSE Version(matches[WinningPattern(matches)].group)
        Matching(all) == Pick([p \in {q \in 1..PatternCount : all[q].found} |-> all[p]])
        Searched(t) == Matching([p \in 1..PatternCount |-> Search(p, t)])
    IN  Searched(Lower(Chars(review_text.body)))

\* the code point of a character of a version
CodePoint(c) ==
    IF c = "." THEN 46 ELSE 47 + (CHOOSE d \in 1..Len(DigitChars) : DigitChars[d] = c)

\* str < str of Python, on the characters
RECURSIVE CharsLess(_, _)
CharsLess(a, b) ==
    IF b = <<>> THEN FALSE
    ELSE IF a = <<>> THEN TRUE
    ELSE IF Head(a) = Head(b) THEN CharsLess(Tail(a), Tail(b))
    ELSE CodePoint(Head(a)) < CodePoint(Head(b))

\* the keys of a groupby, in the ascending order groupby yields them
RECURSIVE SortedKeys(_)
SortedKeys(keys) ==
    IF keys = {} THEN <<>>
    ELSE LET Then(m) == <<m>> \o SortedKeys(keys \ {m})
         IN  Then(CHOOSE x \in keys :
                     \A y \in keys : x = y \/ CharsLess(Chars(x), Chars(y)))

\* group_reviews_by_version(df): the rows get a 'version' column; the dict
\* holds, in groupby's order, one group per detected version (groupby drops
\* the rows whose key is None)
group_reviews_by_version(df) ==
    IF ~HasColumn(df, "text") THEN Raised("KeyError", "group_reviews_by_version")
    ELSE LET Grouped(detected) ==
                LET WithVersion(i) == [c \in df.cols \cup {"version", "index"} |->
                                         CASE c = "version" -> detected[i]
                                           [] c = "index"   -> i
                                           [] OTHER         -> df.rows[i][c]]
                    Rows(members) == [k \in 1..Len(members) |-> WithVersion(members[k])]
                    Group(v) == [cols |-> df.cols \cup {"version", "index"},
                                 rows |-> Rows(SeqOfSet({i \in 1..Len(detected) :
                                                           detected[i] = Version(v)}))]
                    Groups(keys) == [k \in 1..Len(keys) |->
                                       [version |-> keys[k], group |-> Group(keys[k])]]
                IN  Groups(SortedKeys({detected[i].value :
                                         i \in {j \in 1..Len(detected) :
                                                  detected[j] # NoVersion}}))
         IN  Returned(Grouped([i \in 1..Len(df.rows) |->
                                 extract_version_from_review(df.rows[i]["text"])]))

\* x.split('.')
RECURSIVE Split(_, _)
Split(chars, piece) ==
    IF chars = <<>> THEN <<piece>>
    ELSE IF Head(chars) = "." THEN <<piece>> \o Split(Tail(chars), <<>>)
    ELSE Split(Tail(chars), Append(piece, Head(chars)))

\* int(n) of a run of digits
RECURSIVE IntOf(_, _)
IntOf(digits, acc) ==
    IF digits = <<>> THEN acc
    ELSE IntOf(Tail(digits),
               10 * acc + (CHOOSE d \in 1..Len(DigitChars) : DigitChars[d] = Head(digits)) - 1)

\* the sort key [int(n) for n in x.split('.')]
SortKey(x) ==
    LET Ints(pieces) == [k \in 1..Len(pieces) |-> IntOf(pieces[k], 0)]
    IN  Ints(Split(Chars(x), <<>>))

\* list < list of Python, on lists of integers
RECURSIVE KeyLess(_, _)
KeyLess(a, b) ==
    IF b = <<>> THEN FALSE
    ELSE IF a = <<>> THEN TRUE
    ELSE IF Head(a) = Head(b) THEN KeyLess(Tail(a), Tail(b))
    ELSE Head(a) < Head(b)

\* the comparison of the versions as strings
VersionLess_AsStrings(x, y) == CharsLess(Chars(x), Chars(y))

\* the comparison the sort makes: of the keys
VersionLess(x, y) == KeyLess(SortKey(x), SortKey(y))

\* versions.sort(key=..., reverse=True): descending, equal keys in their
\* former order
RECURSIVE InsertDescending(_, _)
InsertDescending(sorted, x) ==
    IF sorted = <<>> THEN <<x>>
    ELSE IF VersionLess(Head(sorted), x)
         THEN <<x>> \o sorted
         ELSE <<Head(sorted)>> \o InsertDescending(Tail(sorted), x)

RECURSIVE SortDescending(_)
SortDescending(versions) ==
    IF versions = <<>> THEN <<>>
    ELSE InsertDescending(SortDescending(SubSeq(versions, 1, Len(versions) - 1)),
                          versions[Len(versions)])

\* st.selectbox(label, options, index): the option at the index (counted from
\* 0), None when there is no option
Selectbox(options, index) ==
    IF options = <<>> THEN NoVersion ELSE Version(options[index + 1])

\* display_version_selector(version_groups)
display_version_selector(version_groups) ==
    LET Selected(versions) ==
            [versions |-> versions,
             version1 |-> Selectbox(versions, 0),
             version2 |-> Selectbox(versions, IF Len(versions) - 1 < 1
                                               THEN Len(versions) - 1 ELSE 1)]
    IN  Returned(Selected(SortDescending(
            [k \in 1..Len(version_groups) |-> version_groups[k].version])))

-----------------------------------------------------------------------------
(* app/components/analysis.py: calculate_comparison_metrics                *)

\* df.groupby("date")["sentiment"].mean().mean(): the mean of the daily means
DailyMeanSentiment(df) ==
    LET days == SeqOfSet({df.rows[i]["date"] : i \in 1..Len(df.rows)})
        OnDay(d) == SelectSeq(df.rows, LAMBDA r : r["date"] = d)
    IN  RatMean([k \in 1..Len(days) |->
                   RatMean([i \in 1..Len(OnDay(days[k])) |->
                              OnDay(days[k])[i]["sentiment"]])])

calculate_comparison_metrics(df1, df2) ==
    IF MissingColumn(df1, df2, <<"date", "sentiment", "engagement">>) # ""
    THEN Raised("KeyError", "calculate_comparison_metrics")
    ELSE Returned(
            [sentiment_diff    |-> RatSub(DailyMeanSentiment(df2), DailyMeanSentiment(df1)),
             review_count_diff |-> Len(df2.rows) - Len(df1.rows),
             engagement_diff   |-> RatSub(RatMean(IntColumn(df2, "engagement")),
                                          RatMean(IntColumn(df1, "engagement")))])

-----------------------------------------------------------------------------
(* core/summarizer.py                                                      *)
(* A text is modelled by its length; its place in the input list is its    *)
(* identity.  A piece of a prompt is [src, take, marker]: the first `take` *)
(* characters of input text `src`, followed by "..." when marker is set.   *)

MAX_REVIEW_LENGTH == 1000

MAX_TOTAL_LENGTH == 20000

\* len("...")
EllipsisLen == 3

\* the "+2 for newlines" of the running total, and len("\n\n")
NewlinesLen == 2

PieceLen(p) == p.take + (IF p.marker THEN EllipsisLen ELSE 0)

\* truncation that also marks a text of exactly MAX_REVIEW_LENGTH characters
TruncateReview_AtLimit(i, text) ==
    IF text.len >= MAX_REVIEW_LENGTH
    THEN [src |-> i, take |-> MAX_REVIEW_LENGTH, marker |-> TRUE]
    ELSE [src |-> i, take |-> text.len, marker |-> FALSE]

\* lines 46-48: text = text[:MAX_REVIEW_LENGTH] + "..." when it is longer
TruncateReview(i, text) ==
    IF text.len > MAX_REVIEW_LENGTH
    THEN [src |-> i, take |-> MAX_REVIEW_LENGTH, marker |-> TRUE]
    ELSE [src |-> i, take |-> text.len, marker |-> FALSE]

\* a ceiling test that forgets the text being added
ExceedsTotal_IgnoringText(total_length, piece) ==
    total_length + NewlinesLen > MAX_TOTAL_LENGTH

\* line 51: total_length + len(text) + 2 > MAX_TOTAL_LENGTH
ExceedsTotal(total_length, piece) ==
    total_length + PieceLen(piece) + NewlinesLen > MAX_TOTAL_LENGTH

\* lines 42-55: the loop over texts from position i on; break at the ceiling
RECURSIVE BuildProcessedTexts(_, _, _, _)
BuildProcessedTexts(texts, i, processed_texts, total_length) ==
    IF i > Len(texts) THEN processed_texts
    ELSE LET piece == TruncateReview(i, texts[i])
         IN  IF ExceedsTotal(total_length, piece)
             THEN processed_texts
             ELSE BuildProcessedTexts(texts, i + 1, Append(processed_texts, piece),
                                      total_length + PieceLen(piece) + NewlinesLen)

RECURSIVE SumPieceLen(_)
SumPieceLen(pieces) ==
    IF pieces = <<>> THEN 0 ELSE PieceLen(Head(pieces)) + SumPieceLen(Tail(pieces))

\* sep.join(pieces) as a block of a prompt: the pieces and the joined length
Join(pieces, sepLen) ==
    [pieces |-> pieces,
     length |-> IF pieces = <<>> THEN 0
                ELSE SumPieceLen(pieces) + sepLen * (Len(pieces) - 1)]

\* a text put into a prompt whole
Whole(texts) == [i \in 1..Len(texts) |-> [src |-> i, take |-> texts[i].len, marker |-> FALSE]]

NothingSent == [entry |-> "none"]

\* the text the collaborator generated
Generated == [kind |-> "generated", body |-> "summary", len |-> Len("summary")]

\* response.choices[0].message.content for the collaborator's answer: "ok" the
\* text above, "other" another text (the sampling temperature is 0.7), "empty"
\* the empty string
Content(collab) ==
    CASE collab = "other" -> [kind |-> "generated", body |-> "another summary",
                              len |-> Len("another summary")]
      [] collab = "empty" -> [kind |-> "generated", body |-> "", len |-> 0]
      [] OTHER            -> Generated

\* a string the entry point made up itself instead of a generated summary
Local(message) == [kind |-> "local", message |-> message]

\* What a summarizer call did: the prompt it sent (NothingSent if none) and
\* how it ended.
Did(sent, out) == [sent |-> sent, out |-> out]

\* summarize_themes(texts): lines 34-93.  collab is "failed" when
\* client.chat.completions.create raises, else the answer it returns; the
\* except clause logs and re-raises.
summarize_themes(texts, collab) ==
    LET processed_texts == BuildProcessedTexts(texts, 1, <<>>, 0)
        sent == [entry |-> "summarize_themes",
                 blocks |-> <<Join(processed_texts, NewlinesLen)>>]
    IN  IF collab = "failed"
        THEN Did(sent, Raised("APIError", "client.chat.completions.create"))
        ELSE Did(sent, Returned(Content(collab)))

\* compare_apps(texts1, texts2, app_names): lines 108-176.  With both lists
\* non-empty the prompt holds both lists joined whole.  After a successful
\* call, json.dumps(response) (line 155) raises TypeError on the client's
\* response object, so the try body always ends in an exception; matching it
\* evaluates openai.error.AuthenticationError (line 165), which either resolves
\* (resolves = TRUE: the last clause returns an error string) or itself raises
\* AttributeError out of the function, depending on the installed client.
compare_apps(texts1, texts2, collab, resolves) ==
    IF texts1 = <<>> \/ texts2 = <<>>
    THEN Did(NothingSent, Returned(Local("Insufficient review data for comparison.")))
    ELSE LET sent == [entry |-> "compare_apps",
                      blocks |-> <<Join(Whole(texts1), 1), Join(Whole(texts2), 1)>>]
         IN  IF resolves
             THEN Did(sent, Returned(Local("Error: An unexpected error occurred.")))
             ELSE Did(sent, Raised("AttributeError", "compare_apps"))

\* analyze_competitors(tweets, competitors): lines 180-212.  A failed call is
\* caught and answered with a fixed string; after a successful call
\* response['choices'] (line 209) is evaluated on the response object, which
\* yields the generated text when the object is subscriptable and otherwise
\* raises TypeError into the same except clause.
analyze_competitors(tweets, collab, subscriptable) ==
    LET sent == [entry |-> "analyze_competitors", blocks |-> <<Join(Whole(tweets), 1)>>]
    IN  IF collab = "ok" /\ subscriptable
        THEN Did(sent, Returned(Generated))
        ELSE Did(sent, Returned(Local("Error generating competitive analysis. Please try again.")))

TOPIC_THRESHOLD == Rat(1, 20)

THEME_THRESHOLD == Rat(1, 10)

RatAbs(r) == [num |-> Abs(r.num), den |-> r.den]

\* one formatted line "key: a -> b (delta)"
ChangeLine(key, a, b) == [key |-> key, a |-> a, b |-> b, delta |-> RatSub(b, a)]

\* a threshold test that also keeps a delta exactly at the threshold
ChangeLines_AtThreshold(map1, map2, threshold) ==
    {ChangeLine(k, map1[k], map2[k]) :
        k \in {x \in DOMAIN map1 :
                 /\ x \in DOMAIN map2
                 /\ \/ IsNaN(threshold)
                    \/ RatLeq(threshold, RatAbs(RatSub(map2[x], map1[x])))}}

\* lines 236-256: the keys of the first period's map that the second period's
\* map holds too, each with its delta; kept when |delta| > threshold
\* (threshold NaN: always kept)
ChangeLines(map1, map2, threshold) ==
    {ChangeLine(k, map1[k], map2[k]) :
        k \in {x \in DOMAIN map1 :
                 /\ x \in DOMAIN map2
                 /\ \/ IsNaN(threshold)
                    \/ ~RatLeq(RatAbs(RatSub(map2[x], map1[x])), threshold)}}

\* analyze_period_changes(period1_data, period2_data, ...): lines 234-296.
\* Every exception, the collaborator's included, is answered with a string.
analyze_period_changes(period1_data, period2_data, collab) ==
    LET sent == [entry |-> "analyze_period_changes",
                 metrics_changes |-> ChangeLines(period1_data.metrics,
                                                 period2_data.metrics, NaN),
                 topic_changes   |-> ChangeLines(period1_data.topics,
                                                 period2_data.topics, TOPIC_THRESHOLD),
                 theme_changes   |-> ChangeLines(period1_data.themes,
                                                 period2_data.themes, THEME_THRESHOLD)]
    IN  IF collab = "ok"
        THEN Did(sent, Returned(Generated))
        ELSE Did(sent, Returned(Local("Error generating period comparison analysis")))

-----------------------------------------------------------------------------
(* Reviews: core/review_fetcher.py and core/analyzer.py                    *)

AppIds == {"com.a", "com.b"}

\* app(app_id)['title']: the store title of an application
TitleOf(app_id) == IF app_id = "com.a" THEN "App A" ELSE "App B"

\* a datetime of the provider, and what json.dump(..., default=str) makes of it
At(day) == [type |-> "datetime", day |-> day]

JsonStr(at) == [type |-> "str", day |-> at.day]

\* the two kinds of review the provider's lists are built from
ProvidedPos == [content |-> TextUX, score |-> 5, thumbsUpCount |-> 3, at |-> At(1)]

ProvidedNeg == [content |-> TextBug, score |-> 1, thumbsUpCount |-> 0, at |-> At(2)]

\* a provider list: a reviews of day 1 followed by b reviews of day 2
Provided(a, b) == [i \in 1..(a + b) |-> IF i <= a THEN ProvidedPos ELSE ProvidedNeg]

ProvidedLists == {Provided(a, b) : a \in 0..MaxCopies, b \in 0..MaxCopies}

\* review.get(key, default)
GetField(review, key, default) == IF key \in DOMAIN review THEN review[key] ELSE default

\* fetch_reviews(app_id, count): the provider's answer put into the program's
\* format; every failure, and an empty answer, is answered with []
fetch_reviews(answer) ==
    IF answer.status = "raised" THEN <<>>
    ELSE [i \in 1..Len(answer.value) |->
            [review        |-> GetField(answer.value[i], "content", [body |-> "", len |-> 0,
                                                                   kw |-> {}, polarity |-> RatInt(0)]),
             score         |-> GetField(answer.value[i], "score", 0),
             thumbsUpCount |-> GetField(answer.value[i], "thumbsUpCount", 0),
             at            |-> GetField(answer.value[i], "at", At(0))]]

\* TextBlob(text).sentiment.polarity
analyze_sentiment(text) == text.polarity

\* analyze_all(reviews): the frame of the reviews with the columns text,
\* sentiment, engagement and date added; ValueError without a 'review' column
analyze_all(reviews) ==
    LET columns == UNION {DOMAIN reviews[i] : i \in 1..Len(reviews)}
        Value(review, c) ==
            CASE c = "text"       -> review["review"]
              [] c = "sentiment"  -> analyze_sentiment(review["review"])
              [] c = "engagement" -> GetField(review, "thumbsUpCount", 0)
              [] c = "date"       -> review["at"].day
              [] OTHER            -> review[c]
    IN  IF "review" \notin columns
        THEN Raised("ValueError", "analyze_all")
        ELSE Returned([cols |-> columns \cup BaseCols,
                       rows |-> [i \in 1..Len(reviews) |->
                                   [c \in columns \cup BaseCols |-> Value(reviews[i], c)]]])

\* the row of the largest engagement, the first one among equals (idxmax)
IdxMax(df) ==
    CHOOSE i \in 1..Len(df.rows) :
        /\ \A j \in 1..Len(df.rows) : df.rows[j]["engagement"] <= df.rows[i]["engagement"]
        /\ \A j \in 1..(i - 1) : df.rows[j]["engagement"] < df.rows[i]["engagement"]

\* get_review_stats(df): a column the frame lacks is answered with None (rating)
\* or 0 (reply rate); sentiment and engagement are read without a test, and
\* idxmax raises ValueError on an empty frame
get_review_stats(df) ==
    IF MissingColumn(df, df, <<"sentiment", "engagement">>) # ""
    THEN Raised("KeyError", "get_review_stats")
    ELSE IF Len(df.rows) = 0
    THEN Raised("ValueError", "get_review_stats")
    ELSE Returned(
            [total_reviews       |-> Len(df.rows),
             average_rating      |-> IF HasColumn(df, "score")
                                     THEN RatMean(IntColumn(df, "score"))
                                     ELSE [entry |-> "None"],
             average_sentiment   |-> RatMean(Column(df, "sentiment")),
             average_engagement  |-> RatMean(IntColumn(df, "engagement")),
             reply_rate          |-> IF HasColumn(df, "has_reply")
                                     THEN RatMean(IntColumn(df, "has_reply"))
                                     ELSE RatInt(0),
             most_engaged_review |-> df.rows[IdxMax(df)]["text"]])

\* df[(df['date'] >= start) & (df['date'] <= end)], period = <<start, end>>
Between(df, period) ==
    [cols |-> df.cols,
     rows |-> SelectSeq(df.rows, LAMBDA r : r["date"] >= period[1] /\ r["date"] <= period[2])]

-----------------------------------------------------------------------------
(* Files: core/utils.py                                                    *)

NoFile == [kind |-> "absent"]

\* a file that json.load rejects
Malformed == [kind |-> "malformed"]

\* the snapshot file store_snapshot writes
SnapshotFile(app_name, reviews, requested_count) ==
    [kind            |-> "snapshot",
     app_name        |-> app_name,
     reviews         |-> [i \in 1..Len(reviews) |->
                            [reviews[i] EXCEPT !.at = JsonStr(@)]],
     review_count    |-> Len(reviews),
     requested_count |-> requested_count]

SnapshotNames == AppIds \cup {TitleOf(a) : a \in AppIds}

\* the file of that name, NoFile when os.path.exists(path) is false
FileAt(files, name) == IF name \in DOMAIN files THEN files[name] ELSE NoFile

\* load_snapshot(app_name): the reviews of today's snapshot of that name;
\* None (falsy, here the empty list) when it is absent or unreadable
load_snapshot(files, app_name) ==
    IF FileAt(files, app_name).kind = "snapshot" THEN files[app_name].reviews ELSE <<>>

\* the existing snapshot is kept only when it meets the requested count
KeepsExisting_OnlyWhenCountMet(existing_reviews, reviews, requested_count) ==
    Len(existing_reviews) >= requested_count

\* lines 154-161: the two tests under which the existing snapshot is kept
KeepsExisting(existing_reviews, reviews, requested_count) ==
    \/ Len(existing_reviews) >= Len(reviews)
    \/ Len(existing_reviews) >= requested_count

\* store_snapshot(app_name, reviews, requested_count).  io is what the file
\* system does to the write: "ok", "open_fails" (nothing written) or
\* "dump_fails" (the file is left cut short).  Every exception is re-raised.
store_snapshot(files, app_name, reviews, requested_count, io) ==
    LET existing == FileAt(files, app_name)
    IN  IF existing.kind = "malformed"
        THEN [files |-> files, out |-> Raised("JSONDecodeError", "store_snapshot")]
        ELSE IF /\ existing.kind = "snapshot"
                /\ KeepsExisting(existing.reviews, reviews, requested_count)
        THEN [files |-> files, out |-> Returned("None")]
        ELSE IF io = "open_fails"
        THEN [files |-> files, out |-> Raised("OSError", "store_snapshot")]
        ELSE IF io = "dump_fails"
        THEN [files |-> [files EXCEPT ![app_name] = Malformed],
              out   |-> Raised("OSError", "store_snapshot")]
        ELSE [files |-> [files EXCEPT ![app_name] =
                            SnapshotFile(app_name, reviews, requested_count)],
              out   |-> Returned("None")]

\* ''.join(texts)
RECURSIVE JoinBodies(_)
JoinBodies(texts) ==
    IF texts = <<>> THEN "" ELSE Head(texts).body \o JoinBodies(Tail(texts))

\* cache_key(texts, app_name): the path of the cache file, named by the md5
\* digest of the identifier; the digest is taken to be collision-free, so the
\* identifier stands for the path.  app_name "" stands for None.
cache_key(texts, app_name) ==
    IF app_name # "" THEN app_name \o "_" \o JoinBodies(texts) ELSE JoinBodies(texts)

\* the keyword arguments a caller may add, in sorted order
KwargNames == <<"max_tokens", "prompt">>

NoKwargs == <<>>

\* json.dumps(kwargs, sort_keys=True); kwargs maps some of KwargNames to the
\* JSON text of their values
RECURSIVE JsonItems(_, _, _)
JsonItems(kwargs, i, first) ==
    IF i > Len(KwargNames) THEN ""
    ELSE IF KwargNames[i] \in DOMAIN kwargs
         THEN (IF first THEN "" ELSE ", ")
                  \o "\"" \o KwargNames[i] \o "\": " \o kwargs[KwargNames[i]]
                  \o JsonItems(kwargs, i + 1, FALSE)
         ELSE JsonItems(kwargs, i + 1, first)

JsonDumps(kwargs) == "{" \o JsonItems(kwargs, 1, TRUE) \o "}"

\* line 79: the discriminator handed to cache_key
CacheParams(app_name, kwargs) ==
    IF app_name # "" THEN app_name \o "_" \o JsonDumps(kwargs) ELSE JsonDumps(kwargs)

\* a cache file that loses the summary it is given
SummaryFile_Emptied(summary) == [kind |-> "summary", summary |-> Content("empty")]

\* the cache file cached_summary writes
SummaryFile(summary) == [kind |-> "summary", summary |-> summary]

\* a failed write of the cache file that ends the call
AfterWrite_Fatal(io, out) ==
    IF io \in {"open_fails", "dump_fails"} THEN Raised("OSError", "cached_summary") ELSE out

\* lines 109-117: a failed write is logged and the summary returned all the same
AfterWrite(io, out) == out

\* cached_summary(texts, summarizer_func, app_name, **kwargs), summarizer_func
\* being summarize_themes: the summary of the cache file when it holds one,
\* else a generated summary, written to the cache file.  io is what the file
\* system does during the call: "ok"; "mkdir_fails" (cache_key returns None, the
\* summary is generated without the cache); "read_fails" (the existing file cannot
\* be opened); "open_fails" / "dump_fails" (the write fails, leaving nothing or
\* a file cut short).  A failed generation and an empty summary are raised.
cached_summary(files, texts, app_name, kwargs, collab, io) ==
    IF texts = <<>>
    THEN [files |-> files, collab |-> "not_called",
          out |-> Returned(Local("No reviews available for summary."))]
    ELSE
    LET Put(path, file) == [p \in DOMAIN files \cup {path} |->
                              IF p = path THEN file ELSE files[p]]
        Written(path, did) ==
            IF did.out.status = "raised"
            THEN [files |-> files, collab |-> collab, out |-> did.out]
            ELSE IF did.out.value.body = ""
            THEN [files |-> files, collab |-> collab,
                  out |-> Raised("ValueError", "cached_summary")]
            ELSE [files |-> CASE io = "open_fails" -> files
                              [] io = "dump_fails" -> Put(path, Malformed)
                              [] OTHER             -> Put(path, SummaryFile(did.out.value)),
                  collab |-> collab, out |-> AfterWrite(io, did.out)]
        Looked(path) ==
            IF /\ io # "read_fails"
               /\ path \in DOMAIN files
               /\ files[path].kind = "summary"
            THEN [files |-> files, collab |-> "not_called", out |-> Returned(files[path].summary)]
            ELSE Written(path, summarize_themes(texts, collab))
        Uncached(did) == [files |-> files, collab |-> collab, out |-> did.out]
    IN  IF io = "mkdir_fails" THEN Uncached(summarize_themes(texts, collab))
        ELSE Looked(cache_key(texts, CacheParams(app_name, kwargs)))

\* the names core/utils.py imports or defines at module level (lines 1-15);
\* CACHE_DIR and SNAPSHOT_DIR of core/settings.py are not among them
UtilsGlobals == {"pd", "datetime", "timedelta", "re", "hashlib", "os", "json",
                 "Counter", "nltk", "stopwords", "word_tokenize", "logging", "logger"}

\* clear_cache(): removes every .json file of CACHE_DIR; evaluating the name
\* CACHE_DIR raises NameError, which is logged and raised again
clear_cache(files) ==
    IF "CACHE_DIR" \notin UtilsGlobals
    THEN [files |-> files, out |-> Raised("NameError", "clear_cache")]
    ELSE [files |-> <<>>, out |-> Returned("None")]

\* default of days_to_keep
DefaultDaysToKeep == 7

\* the part of a snapshot file name after the last "_", ".json" taken off:
\* a day when strptime reads it as %Y-%m-%d
DateStr(day) == [reads |-> TRUE, day |-> day]

NotADate == [reads |-> FALSE]

\* a file name <stem>_<date><ext>
FileName(stem, date, json) == [stem |-> stem, date |-> date, json |-> json]

\* lines 295-307: the file is removed when its name ends with ".json", its date
\* reads, and file_date (midnight of that day) < cutoff_date = now - days_to_keep
Swept(name, days_to_keep, now) ==
    /\ name.json
    /\ name.date.reads
    /\ \/ name.date.day < now.day - days_to_keep
       \/ name.date.day = now.day - days_to_keep /\ ~now.midnight

\* clear_snapshots(days_to_keep): sweeps SNAPSHOT_DIR; evaluating the name
\* SNAPSHOT_DIR raises NameError, which is logged and raised again
clear_snapshots(files, days_to_keep, now) ==
    IF "SNAPSHOT_DIR" \notin UtilsGlobals
    THEN [files |-> files, out |-> Raised("NameError", "clear_snapshots")]
    ELSE [files |-> [f \in {g \in DOMAIN files : ~Swept(g, days_to_keep, now)} |-> files[f]],
          out   |-> Returned("None")]

-----------------------------------------------------------------------------
(* A page run: what a Streamlit script run has shown and invoked so far    *)

\* on: the period or application (1, 2) the event is about, 0 for the run
Invoked(what, on, content) ==
    [kind |-> "invoked", what |-> what, on |-> on, content |-> content]

Shown(what, on, content) ==
    [kind |-> "shown", what |-> what, on |-> on, content |-> content]

\* status: "running"; "raised" while an exception travels up; "stopped"
\* after st.stop(), which no `except Exception` clause catches
NewRun(files, cacheFiles) ==
    [status  |-> "running",
     log     |-> <<>>,
     files   |-> files,
     cache   |-> cacheFiles,
     reviews |-> [k \in 0..2 |-> <<>>]]

Emit(r, event) == IF r.status = "running" THEN [r EXCEPT !.log = Append(@, event)] ELSE r

Stop(r) == IF r.status = "running" THEN [r EXCEPT !.status = "stopped"] ELSE r

Raise(r) == IF r.status = "running" THEN [r EXCEPT !.status = "raised"] ELSE r

\* the run as the except clause finds it: the exception is caught
Caught(b) == [b EXCEPT !.status = "running"]

\* try / except Exception, entered in run r: b is the run after the try body,
\* h the run after the handler, which runs when the body raised
Try(r, b, h) ==
    IF r.status # "running" THEN r
    ELSE IF b.status = "raised" THEN h
    ELSE b

\* the script run is over: an exception nobody caught ends it where it was raised
EndOfRun(r) ==
    [r EXCEPT !.status = CASE r.status = "running" -> "completed"
                           [] r.status = "raised"  -> "crashed"
                           [] OTHER                -> r.status]

\* components/ui.py: display_section_header(title, icon) called with `given`
\* positional arguments; both parameters are required
display_section_header(r, title, given) ==
    IF given < 2 THEN Raise(Emit(r, Invoked("display_section_header", 0, "TypeError")))
    ELSE Emit(r, Shown("section_header", 0, title))

\* the load-or-fetch block of a page, for the application in place `on`;
\* appImported: whether the page imports google_play_scraper.app
FetchOrLoad(r, on, app_id, requested_count, env, appImported) ==
    IF r.status # "running" THEN r
    ELSE
    LET Failed(q) == Stop(Emit(q, Shown("error", on, "Error fetching reviews")))
        Stored(q, fetched, stored) ==
            IF stored.out.status = "raised"
            THEN Failed([q EXCEPT !.files = stored.files])
            ELSE [q EXCEPT !.files = stored.files, !.reviews[on] = fetched]
        Fetched(q, fetched) ==
            IF fetched = <<>>
            THEN Stop(Emit(q, Shown("error", on, "Could not fetch reviews")))
            ELSE IF ~appImported \/ env.app = "failed"
            THEN Failed(Emit(q, Invoked("app", on, app_id)))
            ELSE Stored(Emit(Emit(q, Invoked("app", on, app_id)),
                             Invoked("store_snapshot", on, TitleOf(app_id))),
                        fetched,
                        store_snapshot(q.files, TitleOf(app_id), fetched, requested_count,
                                       env.write))
        Loaded(q, loaded) ==
            IF loaded # <<>> THEN [q EXCEPT !.reviews[on] = loaded]
            ELSE Fetched(Emit(q, Invoked("fetch_reviews", on, app_id)),
                         fetch_reviews(env.provider[on]))
    IN  Loaded(Emit(r, Invoked("load_snapshot", on, app_id)), load_snapshot(r.files, app_id))

-----------------------------------------------------------------------------
(* app/pages/period_comparison.py and components/version_ui.py             *)

\* a guard that lets every slice through
SliceIsEmpty_Never(period_df) == FALSE

\* lines 151, 159: len(period_df) == 0
SliceIsEmpty(period_df) == Len(period_df.rows) = 0

\* display_period_summary(df, start_date, end_date) for period k
display_period_summary(r, df, period, k, km) ==
    IF r.status # "running" THEN r
    ELSE
    LET Extracted(q, topics) ==
            IF topics.status = "raised"
            THEN Raise(Emit(q, Invoked("extract_topics", k, topics.status)))
            ELSE Emit(Emit(q, Invoked("extract_topics", k, topics.status)),
                      Shown("period_summary.topics", k, ""))
        Tagged(q, texts, tagged) ==
            IF tagged.status = "raised"
            THEN Raise(Emit(q, Invoked("tag_reviews_by_theme", k, tagged.status)))
            ELSE Extracted(Emit(Emit(q, Invoked("tag_reviews_by_theme", k, tagged.status)),
                                Shown("period_summary.themes", k, "")),
                           extract_topics(texts, DefaultTopics, km))
        Sliced(q, texts) == Tagged(q, texts, tag_reviews_by_theme(texts))
    IN  Sliced(Emit(Emit(r, Invoked("display_period_summary", k, "")),
                    Shown("period_summary.metrics", k, "")),
               Column(Between(df, period), "text"))

\* lines 179-190: the payload of one period; the first extraction that raises
\* ends its assembly
PeriodPayload(period_df, km) ==
    LET Payload(topics, tagged) ==
            IF topics.status = "raised" THEN topics
            ELSE IF tagged.status = "raised" THEN tagged
            ELSE Returned(
                    [metrics |-> [average_sentiment |-> RatMean(Column(period_df, "sentiment")),
                                  average_rating    |-> RatMean(IntColumn(period_df, "score")),
                                  review_count      |-> RatInt(Len(period_df.rows))],
                     topics  |-> Dict(topics.value),
                     themes  |-> [theme \in ThemeNames |->
                                    RatDivInt(RatSum([i \in 1..Len(tagged.value) |->
                                                        tagged.value[i][theme]]),
                                              Len(period_df.rows))]])
    IN  Payload(extract_topics(Column(period_df, "text"), DefaultTopics, km),
                tag_reviews_by_theme(Column(period_df, "text")))

\* lines 174-217: the narrative of the comparison, in its own try block
PeriodNarrative(r, period1_df, period2_df, env) ==
    LET Narrated(q, did) ==
            Emit(display_section_header(
                     Emit(q, Invoked("analyze_period_changes", 0, env.collab[1])),
                     "AI-Powered Comparison Analysis", 2),
                 Shown("summary_box", 0, did.out.value.kind))
        Body(q, period1_data, period2_data) ==
            IF period1_data.status = "raised"
            THEN Raise(Emit(q, Invoked("period_data", 1, period1_data.status)))
            ELSE IF period2_data.status = "raised"
            THEN Raise(Emit(Emit(q, Invoked("period_data", 1, period1_data.status)),
                            Invoked("period_data", 2, period2_data.status)))
            ELSE Narrated(Emit(Emit(q, Invoked("period_data", 1, period1_data.status)),
                               Invoked("period_data", 2, period2_data.status)),
                          analyze_period_changes(period1_data.value, period2_data.value,
                                                 env.collab[1]))
        Handler(q) == Emit(q, Shown("error", 0, "Error generating period comparison analysis"))
        Tried(b) == Try(r, b, Handler(Caught(b)))
    IN  Tried(Body(r, PeriodPayload(period1_df, env.km[1]),
                      PeriodPayload(period2_df, env.km[2])))

\* lines 139-223: the analysis block
PeriodAnalysis(r, period1, period2, env) ==
    LET Sliced(q, df, period1_df, period2_df) ==
            IF SliceIsEmpty(period1_df)
            THEN Stop(Emit(q, Shown("warning", 1, "No reviews found in the first period")))
            ELSE IF SliceIsEmpty(period2_df)
            THEN Stop(Emit(q, Shown("warning", 2, "No reviews found in the second period")))
            ELSE PeriodNarrative(
                     display_period_summary(
                         display_period_summary(
                             display_section_header(q, "Period Comparison", 2),
                             df, period1, 1, env.km[1]),
                         df, period2, 2, env.km[2]),
                     period1_df, period2_df, env)
        Body(q, analysed) ==
            IF analysed.status = "raised"
            THEN Raise(Emit(q, Invoked("analyze_all", 0, analysed.status)))
            ELSE Sliced(Emit(q, Invoked("analyze_all", 0, analysed.status)),
                        analysed.value,
                        Between(analysed.value, period1),
                        Between(analysed.value, period2))
        Handler(q) == Stop(Emit(q, Shown("error", 0, "Error analyzing reviews")))
        Tried(b) == Try(r, b, Handler(Caught(b)))
    IN  Tried(Body(r, analyze_all(r.reviews[0])))

\* lines 225-236: what follows the analysis block
PeriodTail(r) ==
    Emit(Emit(display_section_header(
                  Emit(Emit(r, Shown("success", 0, "Analysis complete!")),
                       Shown("debug_information", 0, "")),
                  "Raw Reviews", 2),
              Shown("raw_reviews", 1, "")),
         Shown("raw_reviews", 2, ""))

\* the handler of the "Analyze App" button, lines 103-236.  env holds what the
\* outside world answers during the run.
PeriodPageRun(files, cacheFiles, side, env) ==
    IF side.app_id = ""
    THEN EndOfRun(Stop(Emit(NewRun(files, cacheFiles),
                            Shown("error", 0, "Please enter a valid URL"))))
    ELSE EndOfRun(PeriodTail(
             PeriodAnalysis(
                 FetchOrLoad(NewRun(files, cacheFiles), 0, side.app_id,
                             Len(fetch_reviews(env.provider[0])), env, TRUE),
                 side.period1, side.period2, env)))

-----------------------------------------------------------------------------
(* app/main.py and app/components/analysis.py                              *)

\* f"{app_id}_{review_count}"
SummaryName(app_id, review_count) == app_id \o "_" \o ToString(review_count)

\* generate_competitive_summary(df1, df2, app_id1, app_id2, review_count, ...):
\* the two application summaries, then the summary of the two summaries; any
\* exception is raised again as Exception
generate_competitive_summary(r, df1, df2, side, env) ==
    LET Failed == Raised("Exception", "generate_competitive_summary")
        Called(q, on, c) ==
            [Emit(q, Invoked("summarize_themes", on, c.collab)) EXCEPT !.cache = c.files]
        Third(q, c3) ==
            [run |-> Called(q, 0, c3),
             out |-> IF c3.out.status = "raised" THEN Failed ELSE c3.out]
        Second(q, c1, c2) ==
            IF c2.out.status = "raised" THEN [run |-> Called(q, 2, c2), out |-> Failed]
            ELSE Third(Called(q, 2, c2),
                       cached_summary(c2.files, <<c1.out.value, c2.out.value>>,
                                      "competitive_" \o side.app_id1 \o "_"
                                          \o SummaryName(side.app_id2, side.review_count),
                                      NoKwargs, env.collab[3], env.cacheWrite))
        First(q, c1) ==
            IF c1.out.status = "raised" THEN [run |-> Called(q, 1, c1), out |-> Failed]
            ELSE Second(Called(q, 1, c1), c1,
                        cached_summary(c1.files, Column(df2, "text"),
                                       SummaryName(side.app_id2, side.review_count),
                                       NoKwargs, env.collab[2], env.cacheWrite))
    IN  First(r, cached_summary(r.cache, Column(df1, "text"),
                                SummaryName(side.app_id1, side.review_count),
                                NoKwargs, env.collab[1], env.cacheWrite))

\* generate_app_summary(df, app_id, review_count, display_name) for application k
generate_app_summary(r, k, df, app_id, review_count, env) ==
    LET Called(c) ==
            [run |-> [Emit(r, Invoked("summarize_themes", k, c.collab))
                        EXCEPT !.cache = c.files],
             out |-> IF c.out.status = "raised"
                     THEN Raised("Exception", "generate_app_summary")
                     ELSE c.out]
    IN  Called(cached_summary(r.cache, Column(df, "text"),
                              SummaryName(app_id, review_count),
                              NoKwargs, env.collab[3 + k], env.cacheWrite))

\* lines 159-170: the analysis of both lists
MainAnalysis(r) ==
    LET Body(q, a1, a2) ==
            IF a1.status = "raised"
            THEN Raise(Emit(q, Invoked("analyze_all", 1, a1.status)))
            ELSE IF a2.status = "raised"
            THEN Raise(Emit(Emit(q, Invoked("analyze_all", 1, a1.status)),
                            Invoked("analyze_all", 2, a2.status)))
            ELSE Emit(Emit(q, Invoked("analyze_all", 1, a1.status)),
                      Invoked("analyze_all", 2, a2.status))
        Handler(q) == Stop(Emit(q, Shown("error", 0, "Error analyzing reviews")))
        Tried(b) == Try(r, b, Handler(Caught(b)))
    IN  Tried(Body(r, analyze_all(r.reviews[1]), analyze_all(r.reviews[2])))

\* lines 172-222: the comparison of the two applications and its narrative
MainComparison(r, df1, df2, side, env) ==
    IF r.status # "running" THEN r
    ELSE
    LET Summarized(g) ==
            IF g.out.status = "raised" THEN Raise(g.run)
            ELSE Emit(g.run, Shown("summary_box", 0, g.out.value.kind))
        Body(q) == Summarized(generate_competitive_summary(q, df1, df2, side, env))
        Handler(q) == Emit(q, Shown("error", 0, "Error generating competitive summary"))
        Tried(q, b) == Try(q, b, Handler(Caught(b)))
        Narrated(q) == Tried(q, Body(q))
        Measured(q, metrics) ==
            IF metrics.status = "raised" THEN Raise(q)
            ELSE Narrated(Emit(Emit(Emit(Emit(q, Shown("metric_card", 0, "Sentiment")),
                                         Shown("metric_card", 0, "Reviews")),
                                    Shown("metric_card", 0, "Engagement")),
                               Shown("competitive_metrics", 0, "")))
    IN  Measured(display_section_header(
                     Emit(Emit(r, Shown("success", 0, "Analysis complete!")),
                          Shown("debug_information", 0, "")),
                     "Competitive Analysis Summary", 2),
                 calculate_comparison_metrics(df1, df2))

\* lines 232-261 and 263-292: the column of application k.  Both section
\* headers are called with the title alone.
MainAppColumn(r, k, df, app_id, side, env) ==
    LET Summarized(g) ==
            IF g.out.status = "raised" THEN Raise(g.run)
            ELSE Emit(Emit(Emit(display_section_header(
                                    Emit(g.run, Shown("summary_box", k, g.out.value.kind)),
                                    "Key Metrics", 1),
                                Shown("metric_card", k, "Overall Sentiment")),
                           Shown("metric_card", k, "Review Count")),
                      Shown("metric_card", k, "Engagement"))
        Body(q) == Summarized(generate_app_summary(q, k, df, app_id, side.review_count, env))
        Handler(q) == Emit(q, Shown("error", k, "Error generating summary"))
        Tried(q, b) == Try(q, b, Handler(Caught(b)))
        Entered(q) == Tried(q, Body(q))
    IN  Entered(display_section_header(r, "App ID", 1))

\* lines 294-341: the sentiment charts and the raw reviews
MainTail(r) ==
    Emit(Emit(display_section_header(
                  Emit(Emit(display_section_header(r, "Sentiment Analysis Over Time", 2),
                            Shown("sentiment_chart", 1, "")),
                       Shown("sentiment_chart", 2, "")),
                  "Raw Reviews for Both Apps", 2),
              Shown("raw_reviews", 1, "")),
         Shown("raw_reviews", 2, ""))

\* the handler of the "Compare Apps" button, lines 100-341, for the two
\* application ids and the review count of the sidebar.  main.py does not
\* import google_play_scraper.app, so the name is undefined at lines 124, 147.
MainPageRun(files, cacheFiles, side, env) ==
    IF side.app_id1 = "" \/ side.app_id2 = ""
    THEN EndOfRun(Stop(Emit(NewRun(files, cacheFiles),
                            Shown("error", 0, "Please enter valid URLs"))))
    ELSE
    LET Analysed(q, df1, df2) ==
            MainTail(
                MainAppColumn(
                    MainAppColumn(
                        display_section_header(MainComparison(q, df1, df2, side, env),
                                               "AI-Powered Review Analysis", 2),
                        1, df1, side.app_id1, side, env),
                    2, df2, side.app_id2, side, env))
        Loaded(q) == Analysed(q, analyze_all(q.reviews[1]).value,
                                 analyze_all(q.reviews[2]).value)
    IN  EndOfRun(Loaded(MainAnalysis(
                     FetchOrLoad(FetchOrLoad(NewRun(files, cacheFiles), 1, side.app_id1,
                                             side.review_count, env, FALSE),
                                 2, side.app_id2, side.review_count, env, FALSE))))

-----------------------------------------------------------------------------
(* Parts of the program that take no part in a specification stay idle     *)

EngineIdle ==
    /\ version1 = Frame("score", 0, 0)
    /\ version2 = Frame("score", 0, 0)
    /\ km1 = NoRun
    /\ km2 = NoRun
    /\ call = "none"
    /\ outcome = NoOutcome

\* count=200 of the period page's fetch
RequestedCount == 200

NoPage == [run |-> "none", status |-> "none", log |-> <<>>,
           reviews |-> [k \in 0..2 |-> <<>>]]

NoCacheCall == [entry |-> "none", n |-> 0]

NoWrite == [entry |-> "none"]

PageIdle ==
    /\ sidebar = [page |-> "none"]
    /\ provider = [a \in AppIds |-> <<>>]
    /\ snapshots = [n \in SnapshotNames |-> NoFile]
    /\ cache = <<>>
    /\ page = NoPage
    /\ cacheCall = NoCacheCall
    /\ cacheOrigin = <<>>
    /\ writing = NoWrite

SummarizerIdle ==
    /\ sArgs = [kind |-> "none"]
    /\ sCall = "none"
    /\ sCollab = "not_called"
    /\ sSent = NothingSent
    /\ sOut = NoOutcome

-----------------------------------------------------------------------------
(* The comparison routines applied to two frames                           *)

EngineInit ==
    /\ version1 \in Frames
    /\ version2 \in Frames
    /\ km1 = NoRun
    /\ km2 = NoRun
    /\ call = "none"
    /\ outcome = NoOutcome
    /\ SummarizerIdle
    /\ PageIdle

CallCompareVersions ==
    /\ call = "none"
    /\ \E k1 \in KMeansRuns(Len(version1.rows), DefaultTopics),
          k2 \in KMeansRuns(Len(version2.rows), DefaultTopics) :
            /\ km1' = k1
            /\ km2' = k2
            /\ outcome' = compare_versions(version1, version2, k1, k2)
    /\ call' = "compare_versions"
    /\ UNCHANGED <<version1, version2>>
    /\ UNCHANGED summarizerVars
    /\ UNCHANGED pageVars

\* analyze_topic_changes(current_texts, previous_texts) on the texts of the frames
CallAnalyzeTopicChanges ==
    /\ call = "none"
    /\ \E k1 \in KMeansRuns(Len(version1.rows), DefaultTopics),
          k2 \in KMeansRuns(Len(version2.rows), DefaultTopics) :
            /\ km1' = k1
            /\ km2' = k2
            /\ outcome' = analyze_topic_changes(Column(version1, "text"),
                                                Column(version2, "text"),
                                                DefaultTopics, k1, k2)
    /\ call' = "analyze_topic_changes"
    /\ UNCHANGED <<version1, version2>>
    /\ UNCHANGED summarizerVars
    /\ UNCHANGED pageVars

\* tag_reviews_by_theme on the texts of the first frame
CallTagReviewsByTheme ==
    /\ call = "none"
    /\ outcome' = tag_reviews_by_theme(Column(version1, "text"))
    /\ call' = "tag_reviews_by_theme"
    /\ UNCHANGED <<version1, version2, km1, km2>>
    /\ UNCHANGED summarizerVars
    /\ UNCHANGED pageVars

CallCalculateComparisonMetrics ==
    /\ call = "none"
    /\ outcome' = calculate_comparison_metrics(version1, version2)
    /\ call' = "calculate_comparison_metrics"
    /\ UNCHANGED <<version1, version2, km1, km2>>
    /\ UNCHANGED summarizerVars
    /\ UNCHANGED pageVars

EngineNext ==
    \/ CallCompareVersions
    \/ CallAnalyzeTopicChanges
    \/ CallTagReviewsByTheme
    \/ CallCalculateComparisonMetrics

SpecEngine == EngineInit /\ [][EngineNext]_vars

-----------------------------------------------------------------------------
(* The summarizer entry points applied to their arguments                  *)

TextLens == {1, 903, 904, 1000, 1001}

RunCounts == {1, 19}

\* the list of texts written as runs <<length, count>>
RECURSIVE Expand(_)
Expand(runs) ==
    IF runs = <<>> THEN <<>>
    ELSE [i \in 1..Head(runs)[2] |-> [len |-> Head(runs)[1]]] \o Expand(Tail(runs))

TextLists ==
    {Expand(runs) : runs \in UNION {[1..k -> TextLens \X RunCounts] : k \in 0..MaxRuns}}

\* a period payload as period_comparison.py assembles it: two topics, the six
\* themes and three metrics, placed by small integers
PeriodData(shift, u, h) ==
    [metrics |-> [average_sentiment |-> Rat(h - 1, 2),
                  average_rating    |-> Rat(7 + u, 2),
                  review_count      |-> RatInt(20)],
     topics  |-> [l \in {1 + shift, 2 + shift} |->
                    IF l = 1 + shift THEN Rat(8 + u, 20) ELSE Rat(12 - u, 20)],
     themes  |-> [th \in ThemeNames |-> IF th = "UX" THEN Rat(h, 10) ELSE RatInt(0)]]

PeriodDatas ==
    {PeriodData(shift, u, h) : shift \in 0..1, u \in 0..MaxUnits, h \in 0..MaxUnits}

SummarizerInit ==
    /\ sArgs \in {[kind |-> "texts", texts |-> t, texts2 |-> <<>>] : t \in TextLists}
             \cup {[kind |-> "periods", period1_data |-> p, period2_data |-> q] :
                     p \in PeriodDatas, q \in PeriodDatas}
    /\ sCall = "none"
    /\ sCollab = "not_called"
    /\ sSent = NothingSent
    /\ sOut = NoOutcome
    /\ EngineIdle
    /\ PageIdle

\* the entry point did `did`, the collaborator having answered `collab` if asked
Finish(entry, did, collab) ==
    /\ sCall' = entry
    /\ sSent' = did.sent
    /\ sOut' = did.out
    /\ sCollab' = IF did.sent = NothingSent THEN "not_called" ELSE collab
    /\ UNCHANGED engineVars
    /\ UNCHANGED pageVars

CallSummarizeThemes ==
    /\ sCall = "none"
    /\ sArgs.kind = "texts"
    /\ \E collab \in {"ok", "failed"} :
          Finish("summarize_themes", summarize_themes(sArgs.texts, collab), collab)
    /\ UNCHANGED sArgs

CallCompareApps ==
    /\ sCall = "none"
    /\ sArgs.kind = "texts"
    /\ \E texts2 \in {<<>>, <<[len |-> 1500]>>},
          collab \in {"ok", "failed"}, resolves \in BOOLEAN :
            /\ sArgs' = [sArgs EXCEPT !.texts2 = texts2]
            /\ Finish("compare_apps",
                      compare_apps(sArgs.texts, texts2, collab, resolves), collab)

CallAnalyzeCompetitors ==
    /\ sCall = "none"
    /\ sArgs.kind = "texts"
    /\ \E collab \in {"ok", "failed"}, subscriptable \in BOOLEAN :
          Finish("analyze_competitors",
                 analyze_competitors(sArgs.texts, collab, subscriptable), collab)
    /\ UNCHANGED sArgs

CallAnalyzePeriodChanges ==
    /\ sCall = "none"
    /\ sArgs.kind = "periods"
    /\ \E collab \in {"ok", "failed"} :
          Finish("analyze_period_changes",
                 analyze_period_changes(sArgs.period1_data, sArgs.period2_data, collab),
                 collab)
    /\ UNCHANGED sArgs

SummarizerNext ==
    \/ CallSummarizeThemes
    \/ CallCompareApps
    \/ CallAnalyzeCompetitors
    \/ CallAnalyzePeriodChanges

SpecSummarizer == SummarizerInit /\ [][SummarizerNext]_vars

-----------------------------------------------------------------------------
(* The page runs                                                           *)

\* date ranges over the two days the reviews are dated
Periods == {<<1, 1>>, <<2, 2>>, <<1, 2>>}

\* what the file system can do to a write
WriteOutcomes == {"ok", "open_fails", "dump_fails"}

\* the provider's answer to a request for an application's reviews
ProviderAnswers(app_id) ==
    {Returned(provider[app_id]), Raised("Exception", "google_play_scraper.reviews")}

\* what a finished run leaves in the page
PageOf(run, r) ==
    [run |-> run, status |-> r.status, log |-> r.log, reviews |-> r.reviews]

\* the slice of period k the analysis block will cut, given the run so far
SliceSize(r, period) ==
    IF r.status # "running" \/ analyze_all(r.reviews[0]).status = "raised" THEN 0
    ELSE Len(Between(analyze_all(r.reviews[0]).value, period).rows)

PeriodInit ==
    /\ sidebar \in {[page |-> "period", app_id |-> a, period1 |-> p, period2 |-> q] :
                      a \in {"", "com.a"}, p \in Periods, q \in Periods}
    /\ provider \in {[a \in AppIds |-> IF a = "com.a" THEN l ELSE <<>>] :
                       l \in ProvidedLists}
    /\ snapshots \in
          {[n \in SnapshotNames |->
              CASE n = "com.a"          -> f
                [] n = TitleOf("com.a") -> g
                [] OTHER                -> NoFile] :
             f \in {NoFile, Malformed,
                    SnapshotFile("com.a",
                                 fetch_reviews(Returned(Provided(MaxCopies, MaxCopies))),
                                 RequestedCount)},
             g \in {NoFile, Malformed}}
    /\ cache = <<>>
    /\ page = NoPage
    /\ cacheCall = NoCacheCall
    /\ cacheOrigin = <<>>
    /\ writing = NoWrite
    /\ EngineIdle
    /\ SummarizerIdle

\* the clustering answers drawn in a page run: the clusters labelled from a
\* window shifted by 0 or 1, the texts beyond one per cluster in the first
PageKMeansRuns(n) ==
    {k \in KMeansRuns(n, DefaultTopics) :
        \/ k = NoRun
        \/ /\ k.labels[1] # k.labels[2]
           /\ k.labels[1] <= 2
           /\ k.sizes[1] = 1 + (n - DefaultTopics)}

\* a click on "Analyze App": one run of the period-comparison script.  The
\* outside world is asked only for the answers the run comes to need.
ClickAnalyzeApp ==
    /\ sidebar.page = "period"
    /\ \E fetches \in {sidebar.app_id # "" /\ load_snapshot(snapshots, sidebar.app_id) = <<>>} :
       \E answer \in IF fetches THEN ProviderAnswers("com.a")
                      ELSE {Returned(<<>>)} :
       \E appOut \in IF fetches /\ fetch_reviews(answer) # <<>> THEN {"ok", "failed"}
                      ELSE {"ok"} :
       \E write \in IF fetches /\ fetch_reviews(answer) # <<>> /\ appOut = "ok"
                     THEN WriteOutcomes ELSE {"ok"} :
       \E base \in {[provider |-> [k \in 0..2 |-> answer], app |-> appOut,
                     write |-> write, collab |-> <<"ok">>, km |-> <<NoRun, NoRun>>]} :
       \E fetched \in {IF sidebar.app_id = "" THEN Stop(NewRun(snapshots, cache))
                       ELSE FetchOrLoad(NewRun(snapshots, cache), 0, sidebar.app_id,
                                        Len(fetch_reviews(answer)), base, TRUE)} :
       \E k1 \in PageKMeansRuns(SliceSize(fetched, sidebar.period1)),
          k2 \in PageKMeansRuns(SliceSize(fetched, sidebar.period2)) :
       \E collab \in IF k1 # NoRun /\ k2 # NoRun THEN {"ok", "failed"} ELSE {"ok"} :
       \E r \in {PeriodPageRun(snapshots, cache, sidebar,
                               [base EXCEPT !.km = <<k1, k2>>, !.collab = <<collab>>])} :
          /\ page' = PageOf("period", r)
          /\ snapshots' = r.files
          /\ cache' = r.cache
    /\ UNCHANGED <<sidebar, provider, cacheCall, cacheOrigin, writing>>
    /\ UNCHANGED engineVars
    /\ UNCHANGED summarizerVars

PeriodNext == ClickAnalyzeApp

SpecPeriod == PeriodInit /\ [][PeriodNext]_vars

MainInit ==
    /\ sidebar \in {[page |-> "main", app_id1 |-> a, app_id2 |-> "com.b",
                     review_count |-> RequestedCount] : a \in {"", "com.a"}}
    /\ provider \in {[a \in AppIds |-> l] : l \in {<<>>, Provided(1, 1)}}
    /\ snapshots \in
          {[n \in SnapshotNames |->
              CASE n = "com.a" -> f
                [] n = "com.b" -> g
                [] OTHER       -> NoFile] :
             f \in {NoFile, Malformed}
                   \cup {SnapshotFile("com.a", fetch_reviews(Returned(Provided(a, 1))),
                                      RequestedCount) : a \in 0..MaxCopies},
             g \in {NoFile,
                    SnapshotFile("com.b", fetch_reviews(Returned(Provided(1, MaxCopies))),
                                 RequestedCount)}}
    /\ cache = <<>>
    /\ page = NoPage
    /\ cacheCall = NoCacheCall
    /\ cacheOrigin = <<>>
    /\ writing = NoWrite
    /\ EngineIdle
    /\ SummarizerIdle

\* the five places where a run calls the collaborator (lines 34, 40, 58 of
\* analysis.py for the comparison, line 71 for each application): the
\* collaborator fails at place j, at none when j = 6
CollabAnswers == {[i \in 1..5 |-> IF i = j THEN "failed" ELSE "ok"] : j \in 1..6}

\* a click on "Compare Apps": one run of the two-application script
ClickCompareApps ==
    /\ sidebar.page = "main"
    /\ \E loads \in {/\ sidebar.app_id1 # ""
                     /\ load_snapshot(snapshots, sidebar.app_id1) # <<>>
                     /\ load_snapshot(snapshots, sidebar.app_id2) # <<>>} :
       \E answer1 \in IF ~loads THEN ProviderAnswers("com.a") ELSE {Returned(<<>>)} :
       \E answer2 \in IF ~loads THEN ProviderAnswers("com.b") ELSE {Returned(<<>>)} :
       \E collab \in IF loads THEN CollabAnswers ELSE {[i \in 1..5 |-> "ok"]} :
       \E write \in IF loads THEN WriteOutcomes ELSE {"ok"} :
       \E r \in {MainPageRun(snapshots, cache, sidebar,
                             [provider |-> [k \in 0..2 |-> IF k = 2 THEN answer2 ELSE answer1],
                              app |-> "ok", write |-> "ok", collab |-> collab,
                              cacheWrite |-> write])} :
          /\ page' = PageOf("main", r)
          /\ snapshots' = r.files
          /\ cache' = r.cache
    /\ UNCHANGED <<sidebar, provider, cacheCall, cacheOrigin, writing>>
    /\ UNCHANGED engineVars
    /\ UNCHANGED summarizerVars

MainNext == ClickCompareApps

SpecMain == MainInit /\ [][MainNext]_vars

-----------------------------------------------------------------------------
(* The summary cache: cached_summary called directly, call after call.     *)
(* cached_summary keeps nothing in memory between calls, so a restart of   *)
(* the process between two calls leaves the state as it is.                *)

Text(body) == [body |-> body, len |-> Len(body)]

\* lists of texts: two that join to the same characters, one in another order
CacheTexts == {<<>>, <<Text("ab"), Text("c")>>, <<Text("abc")>>, <<Text("c"), Text("ab")>>}

CacheAppNames == {"", "com.a_200"}

CacheKwargs == {NoKwargs, [k \in {"max_tokens"} |-> "1000"]}

CollabOutcomes == {"ok", "other", "empty", "failed"}

CacheOutcomes == {"ok", "mkdir_fails", "read_fails", "open_fails", "dump_fails"}

CacheInit ==
    /\ cache = <<>>
    /\ cacheCall = NoCacheCall
    /\ cacheOrigin = <<>>
    /\ writing = NoWrite
    /\ sidebar = [page |-> "none"]
    /\ provider = [a \in AppIds |-> <<>>]
    /\ snapshots = [n \in SnapshotNames |-> NoFile]
    /\ page = NoPage
    /\ EngineIdle
    /\ SummarizerIdle

\* the call that wrote the summary file at path (its request, the summary it
\* returned), after a call that ended as c: a new summary file is the call's
\* own, a file cut short is nobody's
OriginAfter(origin, path, request, c, io) ==
    IF c.collab = "not_called" \/ io = "mkdir_fails" \/ c.out.status # "returned"
    THEN origin
    ELSE IF io \in {"ok", "read_fails"}
    THEN [p \in DOMAIN origin \cup {path} |->
            IF p = path THEN [request |-> request, summary |-> c.out.value]
            ELSE origin[p]]
    ELSE IF io = "dump_fails"
    THEN [p \in DOMAIN origin \ {path} |-> origin[p]]
    ELSE origin

\* one call cached_summary(texts, summarize_themes, app_name, **kwargs); the
\* file system is involved only for a non-empty list, the collaborator only
\* when the call comes to generate
CallCachedSummary ==
    /\ cacheCall.n < MaxCalls
    /\ \E texts \in CacheTexts, app_name \in CacheAppNames, kwargs \in CacheKwargs :
       \E path \in {cache_key(texts, CacheParams(app_name, kwargs))} :
       \E io \in IF texts = <<>> THEN {"ok"} ELSE CacheOutcomes :
       \E answer \in IF cached_summary(cache, texts, app_name, kwargs, "ok", io).collab
                          = "not_called"
                      THEN {"ok"} ELSE CollabOutcomes :
       \E request \in {[texts |-> texts, app_name |-> app_name, kwargs |-> kwargs]} :
       \E c \in {cached_summary(cache, texts, app_name, kwargs, answer, io)} :
          /\ cache' = c.files
          /\ cacheOrigin' = OriginAfter(cacheOrigin, path, request, c, io)
          /\ cacheCall' =
                [entry   |-> "cached_summary",
                 request |-> request,
                 n       |-> cacheCall.n + 1,
                 io      |-> io,
                 answer  |-> answer,
                 before  |-> FileAt(cache, path),
                 writer  |-> IF path \in DOMAIN cacheOrigin THEN {cacheOrigin[path]}
                             ELSE {},
                 collab  |-> c.collab,
                 out     |-> c.out]
    /\ UNCHANGED <<sidebar, provider, snapshots, page, writing>>
    /\ UNCHANGED engineVars
    /\ UNCHANGED summarizerVars

\* one call clear_cache()
CallClearCache ==
    /\ cacheCall.n < MaxCalls
    /\ \E c \in {clear_cache(cache)} :
          /\ cache' = c.files
          /\ cacheOrigin' = [p \in DOMAIN cacheOrigin \cap DOMAIN c.files |-> cacheOrigin[p]]
          /\ cacheCall' = [entry |-> "clear_cache", n |-> cacheCall.n + 1, out |-> c.out]
    /\ UNCHANGED <<sidebar, provider, snapshots, page, writing>>
    /\ UNCHANGED engineVars
    /\ UNCHANGED summarizerVars

CacheNext == CallCachedSummary \/ CallClearCache

SpecCache == CacheInit /\ [][CacheNext]_vars

-----------------------------------------------------------------------------
(* The snapshot directory under clear_snapshots                            *)

\* the day of the sweep
Today == 10

\* snapshot files dated before, at and within the default window, one whose
\* date does not read, and a file that is not a .json file
SweepNames ==
    {FileName("App A", DateStr(d), TRUE) :
        d \in {Today - DefaultDaysToKeep - 1, Today - DefaultDaysToKeep,
               Today - DefaultDaysToKeep + 1, Today - 1, Today}}
    \cup {FileName("App A", NotADate, TRUE), FileName("App A", DateStr(Today - 9), FALSE)}

SweepInit ==
    /\ sidebar \in {[page |-> "maintenance", now |-> [day |-> Today, midnight |-> m]] :
                      m \in BOOLEAN}
    /\ snapshots \in {[f \in names |-> SnapshotFile(f.stem, <<>>, RequestedCount)] :
                        names \in SUBSET SweepNames}
    /\ cache \in {<<>>, [p \in {"com.a_200_{}_abc"} |-> SummaryFile(Generated)]}
    /\ provider = [a \in AppIds |-> <<>>]
    /\ page = NoPage
    /\ cacheCall = NoCacheCall
    /\ cacheOrigin = <<>>
    /\ writing = NoWrite
    /\ EngineIdle
    /\ SummarizerIdle

\* one call clear_snapshots(days_to_keep), days_to_keep given or left to its
\* default
CallClearSnapshots ==
    /\ sidebar.page = "maintenance"
    /\ \E days_to_keep \in {1, DefaultDaysToKeep} :
       \E c \in {clear_snapshots(snapshots, days_to_keep, sidebar.now)} :
          /\ snapshots' = c.files
          /\ page' = [run          |-> "maintenance",
                      status       |-> IF c.out.status = "raised" THEN "raised" ELSE "returned",
                      log          |-> <<Invoked("clear_snapshots", 0, c.out.status)>>,
                      reviews      |-> NoPage.reviews,
                      days_to_keep |-> days_to_keep,
                      before       |-> snapshots,
                      cacheBefore  |-> cache]
    /\ UNCHANGED <<sidebar, provider, cache, cacheCall, cacheOrigin, writing>>
    /\ UNCHANGED engineVars
    /\ UNCHANGED summarizerVars

SweepNext == CallClearSnapshots

SpecSweep == SweepInit /\ [][SweepNext]_vars

-----------------------------------------------------------------------------
(* One snapshot file under store_snapshot, call after call on one day      *)

\* the counts asked for: one that a stored list can meet, and the page's
RequestedCounts == {MaxCopies, RequestedCount}

StoreInit ==
    /\ EngineIdle
    /\ SummarizerIdle
    /\ PageIdle

\* one call store_snapshot(app_name, reviews, requested_count)
CallStoreSnapshot ==
    /\ \E reviews \in {fetch_reviews(Returned(l)) : l \in ProvidedLists},
          requested_count \in RequestedCounts,
          io \in WriteOutcomes :
       \E s \in {store_snapshot(snapshots, TitleOf("com.a"), reviews, requested_count, io)} :
          /\ snapshots' = s.files
          /\ page' = [run             |-> "store_snapshot",
                      status          |-> s.out.status,
                      log             |-> <<Invoked("store_snapshot", 0, TitleOf("com.a"))>>,
                      reviews         |-> NoPage.reviews,
                      before          |-> FileAt(snapshots, TitleOf("com.a")),
                      given           |-> Len(reviews),
                      requested_count |-> requested_count]
    /\ UNCHANGED <<sidebar, provider, cache, cacheCall, cacheOrigin, writing>>
    /\ UNCHANGED engineVars
    /\ UNCHANGED summarizerVars

StoreNext == CallStoreSnapshot

SpecStore == StoreInit /\ [][StoreNext]_vars

-----------------------------------------------------------------------------
(* Two runs on the same files.  Streamlit runs the script of each session  *)
(* in a thread of its own; a write is open(path, 'w'), which empties the   *)
(* file, then json.dump, which fills it.  The second run is a whole run of *)
(* the period page or one call of cached_summary, between the two.         *)

\* the reviews the writing run has fetched
WriterReviews == fetch_reviews(Returned(Provided(1, 1)))

\* the texts and the name both runs ask a summary for
SharedTexts == <<Text("abc")>>

SharedName == "com.a_200"

SharedPath == cache_key(SharedTexts, CacheParams(SharedName, NoKwargs))

\* the files with the file of that name replaced
WithFile(files, name, file) ==
    [n \in DOMAIN files \cup {name} |-> IF n = name THEN file ELSE files[n]]

InterleaveInit ==
    /\ sidebar = [page |-> "period", app_id |-> "com.a",
                  period1 |-> <<1, 1>>, period2 |-> <<2, 2>>]
    /\ provider \in {[a \in AppIds |-> IF a = "com.a" THEN l ELSE <<>>] :
                       l \in {Provided(1, 0), Provided(MaxCopies, MaxCopies)}}
    /\ snapshots \in
          {[n \in SnapshotNames |->
              CASE n = "com.a"          -> f
                [] n = TitleOf("com.a") -> g
                [] OTHER                -> NoFile] :
             f \in {NoFile, SnapshotFile("com.a", WriterReviews, RequestedCount)},
             g \in {NoFile}}
    /\ cache \in {<<>>, WithFile(<<>>, SharedPath, SummaryFile(Content("other")))}
    /\ page = NoPage
    /\ cacheCall = NoCacheCall
    /\ cacheOrigin = <<>>
    /\ writing = NoWrite
    /\ EngineIdle
    /\ SummarizerIdle

\* the writing run's store_snapshot(app_name, reviews, requested_count) has
\* come to open(path, 'w'): the file is there and empty
OpenSnapshotForWriting ==
    /\ writing = NoWrite
    /\ \E name \in {"com.a", TitleOf("com.a")} :
       \E s \in {store_snapshot(snapshots, name, WriterReviews, RequestedCount, "ok")} :
          /\ s.out.status = "returned"
          /\ s.files # snapshots
          /\ snapshots' = WithFile(snapshots, name, Malformed)
          /\ writing' = [entry |-> "snapshot", name |-> name, file |-> s.files[name]]
    /\ UNCHANGED <<sidebar, provider, cache, page, cacheCall, cacheOrigin>>
    /\ UNCHANGED engineVars
    /\ UNCHANGED summarizerVars

\* the writing run's cached_summary has generated a summary and come to
\* open(path, 'w')
OpenSummaryForWriting ==
    /\ writing = NoWrite
    /\ \E c \in {cached_summary(cache, SharedTexts, SharedName, NoKwargs, "ok", "ok")} :
          /\ c.collab # "not_called"
          /\ cache' = WithFile(cache, SharedPath, Malformed)
          /\ writing' = [entry |-> "summary", name |-> SharedPath, file |-> c.files[SharedPath]]
    /\ UNCHANGED <<sidebar, provider, snapshots, page, cacheCall, cacheOrigin>>
    /\ UNCHANGED engineVars
    /\ UNCHANGED summarizerVars

\* json.dump has written the whole object and the file is closed
FinishWriting ==
    /\ writing # NoWrite
    /\ IF writing.entry = "snapshot"
       THEN snapshots' = WithFile(snapshots, writing.name, writing.file) /\ cache' = cache
       ELSE cache' = WithFile(cache, writing.name, writing.file) /\ snapshots' = snapshots
    /\ writing' = NoWrite
    /\ UNCHANGED <<sidebar, provider, page, cacheCall, cacheOrigin>>
    /\ UNCHANGED engineVars
    /\ UNCHANGED summarizerVars

\* the other run calls cached_summary for the same texts and name
ReadSummary ==
    /\ cacheCall.n < MaxCalls
    /\ \E answer \in {"ok", "failed"} :
       \E c \in {cached_summary(cache, SharedTexts, SharedName, NoKwargs, answer, "ok")} :
          /\ cache' = c.files
          /\ cacheCall' = [entry  |-> "cached_summary",
                           n      |-> cacheCall.n + 1,
                           before |-> FileAt(cache, SharedPath),
                           collab |-> c.collab,
                           out    |-> c.out]
    /\ UNCHANGED <<sidebar, provider, snapshots, page, cacheOrigin, writing>>
    /\ UNCHANGED engineVars
    /\ UNCHANGED summarizerVars

InterleaveNext ==
    \/ OpenSnapshotForWriting
    \/ OpenSummaryForWriting
    \/ FinishWriting
    \/ ClickAnalyzeApp
    \/ ReadSummary

SpecInterleave == InterleaveInit /\ [][InterleaveNext]_vars

-----------------------------------------------------------------------------
(* The reviews of two applications from the provider's records to the      *)
(* statistics and the comparison                                           *)

\* a provider record without the given keys
Without(review, keys) == [k \in (DOMAIN review) \ keys |-> review[k]]

\* the optional values of a provider record
OptionalKeys == {"score", "thumbsUpCount"}

\* a provider list of a + b records whose first record lacks the given keys
ProvidedLacking(a, b, keys) ==
    [i \in 1..(a + b) |-> IF i = 1 THEN Without(Provided(a, b)[1], keys) ELSE Provided(a, b)[i]]

SparseLists ==
    {ProvidedLacking(a, b, keys) :
        a \in 1..MaxCopies, b \in 1..MaxCopies, keys \in SUBSET OptionalKeys}

NormalizerInit ==
    /\ provider \in [AppIds -> SparseLists]
    /\ version1 = Frame("score", 0, 0)
    /\ version2 = Frame("score", 0, 0)
    /\ km1 = NoRun
    /\ km2 = NoRun
    /\ call = "none"
    /\ outcome = NoOutcome
    /\ sidebar = [page |-> "none"]
    /\ snapshots = [n \in SnapshotNames |-> NoFile]
    /\ cache = <<>>
    /\ page = NoPage
    /\ cacheCall = NoCacheCall
    /\ cacheOrigin = <<>>
    /\ writing = NoWrite
    /\ SummarizerIdle

\* df = analyze_all(fetch_reviews(app_id)) for each of the two applications
CallAnalyzeAll ==
    /\ call = "none"
    /\ \E a1 \in {analyze_all(fetch_reviews(Returned(provider["com.a"])))},
          a2 \in {analyze_all(fetch_reviews(Returned(provider["com.b"])))} :
            /\ a1.status = "returned"
            /\ a2.status = "returned"
            /\ version1' = a1.value
            /\ version2' = a2.value
    /\ call' = "analyze_all"
    /\ UNCHANGED <<km1, km2, outcome>>
    /\ UNCHANGED summarizerVars
    /\ UNCHANGED pageVars

\* get_review_stats(df) on the first application's frame
CallGetReviewStats ==
    /\ call = "analyze_all"
    /\ outcome' = get_review_stats(version1)
    /\ call' = "get_review_stats"
    /\ UNCHANGED <<version1, version2, km1, km2>>
    /\ UNCHANGED summarizerVars
    /\ UNCHANGED pageVars

\* compare_versions(df1, df2) on the two frames
CompareAnalyzed ==
    /\ call = "analyze_all"
    /\ \E k1 \in PageKMeansRuns(Len(version1.rows)),
          k2 \in PageKMeansRuns(Len(version2.rows)) :
            /\ km1' = k1
            /\ km2' = k2
            /\ outcome' = compare_versions(version1, version2, k1, k2)
    /\ call' = "compare_versions"
    /\ UNCHANGED <<version1, version2>>
    /\ UNCHANGED summarizerVars
    /\ UNCHANGED pageVars

NormalizerNext ==
    \/ CallAnalyzeAll
    \/ CallGetReviewStats
    \/ CompareAnalyzed

SpecNormalizer == NormalizerInit /\ [][NormalizerNext]_vars

-----------------------------------------------------------------------------
(* Reviews that name versions: extraction, grouping and the selector       *)

\* What a review can say: the words, the pattern of the list they are an
\* instance of (0 when of none) and the version they name
Phrase(words, pattern, version, segments) ==
    [words |-> words, pattern |-> pattern, version |-> version, segments |-> segments]

Phrases ==
    <<Phrase("Version 1.10", 1, "1.10", <<1, 10>>),
      Phrase("v2.0", 2, "2.0", <<2, 0>>),
      Phrase("1.9 version", 3, "1.9", <<1, 9>>),
      Phrase("update 3.0.1", 4, "3.0.1", <<3, 0, 1>>),
      Phrase("great app", 0, "", <<>>),
      Phrase("version 2", 0, "", <<>>)>>

\* the phrases set one after the other, ", " between them
RECURSIVE Sentence(_)
Sentence(parts) ==
    IF parts = <<>> THEN ""
    ELSE IF Len(parts) = 1 THEN parts[1].words
    ELSE parts[1].words \o ", " \o Sentence(Tail(parts))

\* the lists of at most n elements of a set
RECURSIVE ListsUpTo(_, _)
ListsUpTo(S, n) ==
    IF n = 0 THEN {<<>>}
    ELSE ListsUpTo(S, n - 1)
         \cup {Append(l, x) : l \in {m \in ListsUpTo(S, n - 1) : Len(m) = n - 1}, x \in S}

VersionText(parts) == [body |-> Sentence(parts), len |-> Len(Sentence(parts)), parts |-> parts]

VersionTexts ==
    {VersionText(parts) : parts \in ListsUpTo({Phrases[k] : k \in 1..Len(Phrases)}, MaxParts)}

\* a frame of review texts: any text first, then texts of one phrase that
\* names a version
VersionFrames ==
    {[cols |-> {"text"}, rows |-> <<>>]}
    \cup {[cols |-> {"text"},
           rows |-> <<[text |-> t]>> \o [k \in 1..Len(more) |-> [text |-> VersionText(<<more[k]>>)]]] :
            t \in VersionTexts,
            more \in ListsUpTo({Phrases[k] : k \in 1..3}, MaxRows - 1)}

VersionsInit ==
    /\ version1 \in VersionFrames
    /\ version2 = Frame("score", 0, 0)
    /\ km1 = NoRun
    /\ km2 = NoRun
    /\ call = "none"
    /\ outcome = NoOutcome
    /\ SummarizerIdle
    /\ PageIdle

\* extract_version_from_review on the text of the first row
CallExtractVersion ==
    /\ call = "none"
    /\ Len(version1.rows) > 0
    /\ outcome' = Returned(extract_version_from_review(version1.rows[1]["text"]))
    /\ call' = "extract_version_from_review"
    /\ UNCHANGED <<version1, version2, km1, km2>>
    /\ UNCHANGED summarizerVars
    /\ UNCHANGED pageVars

\* group_reviews_by_version(df)
CallGroupReviewsByVersion ==
    /\ call = "none"
    /\ outcome' = group_reviews_by_version(version1)
    /\ call' = "group_reviews_by_version"
    /\ UNCHANGED <<version1, version2, km1, km2>>
    /\ UNCHANGED summarizerVars
    /\ UNCHANGED pageVars

\* display_version_selector on the groups group_reviews_by_version returned
CallDisplayVersionSelector ==
    /\ call = "group_reviews_by_version"
    /\ outcome.status = "returned"
    /\ outcome' = display_version_selector(outcome.value)
    /\ call' = "display_version_selector"
    /\ UNCHANGED <<version1, version2, km1, km2>>
    /\ UNCHANGED summarizerVars
    /\ UNCHANGED pageVars

VersionsNext ==
    \/ CallExtractVersion
    \/ CallGroupReviewsByVersion
    \/ CallDisplayVersionSelector

SpecVersions == VersionsInit /\ [][VersionsNext]_vars

-----------------------------------------------------------------------------
(* Properties                                                              *)

NonEmpty(df) == Len(df.rows) > 0

\* the labels a clustering run returned
LabelsOf(km) == {km.labels[i] : i \in DOMAIN km.labels}

\* the frequencies a run over n texts reported under label t; 0 when it
\* did not find t
FreqsOf(km, n, t) ==
    IF t \in LabelsOf(km)
    THEN {Rat(km.sizes[i], n) : i \in {j \in DOMAIN km.labels : km.labels[j] = t}}
    ELSE {RatInt(0)}

\* the mean theme score of a frame's texts
ThemeMeanOf(df, theme) ==
    RatMean([i \in 1..Len(df.rows) |-> ThemeScore(df.rows[i]["text"], theme)])

ReturnedFrom(routine) == call = routine /\ outcome.status = "returned"

\* C1: every delta returned by compare_versions and by
\* calculate_comparison_metrics is the value of the second frame (B) minus the
\* value of the first frame (A).
C1_DeltasAreBMinusA ==
    /\ ReturnedFrom("compare_versions") =>
        LET r == outcome.value
            n1 == Len(version1.rows)
            n2 == Len(version2.rows)
        IN  /\ r.sentiment.delta =
                  RatSub(RatMean(Column(version2, "sentiment")),
                         RatMean(Column(version1, "sentiment")))
            /\ \A t \in DOMAIN r.topics :
                  /\ r.topics[t].version1 \in FreqsOf(km1, n1, t)
                  /\ r.topics[t].version2 \in FreqsOf(km2, n2, t)
                  /\ r.topics[t].delta = RatSub(r.topics[t].version2, r.topics[t].version1)
            /\ \A th \in DOMAIN r.themes :
                  r.themes[th].delta =
                      RatSub(ThemeMeanOf(version2, th), ThemeMeanOf(version1, th))
            /\ r.metrics.review_count.delta = n2 - n1
            /\ r.metrics.average_rating.delta =
                  RatSub(RatMean(IntColumn(version2, "rating")),
                         RatMean(IntColumn(version1, "rating")))
    /\ ReturnedFrom("calculate_comparison_metrics") =>
        LET r == outcome.value
        IN  /\ r.sentiment_diff =
                  RatSub(DailyMeanSentiment(version2), DailyMeanSentiment(version1))
            /\ r.review_count_diff = Len(version2.rows) - Len(version1.rows)
            /\ r.engagement_diff =
                  RatSub(RatMean(IntColumn(version2, "engagement")),
                         RatMean(IntColumn(version1, "engagement")))

\* compare_versions returned for two non-empty frames whose sentiment, size,
\* rating, themes and topics differ, so that B - A and A - B differ
C1_Witness ==
    /\ ReturnedFrom("compare_versions")
    /\ NonEmpty(version1) /\ NonEmpty(version2)
    /\ Len(version1.rows) # Len(version2.rows)
    /\ outcome.value.sentiment.delta.num < 0
    /\ outcome.value.metrics.average_rating.delta.num < 0
    /\ \E t \in DOMAIN outcome.value.topics : outcome.value.topics[t].delta.num > 0
    /\ \E th \in DOMAIN outcome.value.themes : outcome.value.themes[th].delta.num > 0

\* C2: the topic keys of compare_versions and of analyze_topic_changes are the
\* union of the labels of the two clustering runs; a label only one run found
\* is kept, with frequency 0 on the other side.
C2_TopicKeysAreUnion ==
    /\ ReturnedFrom("compare_versions") =>
        /\ DOMAIN outcome.value.topics = LabelsOf(km1) \cup LabelsOf(km2)
        /\ \A t \in DOMAIN outcome.value.topics :
              /\ t \notin LabelsOf(km1) => outcome.value.topics[t].version1 = RatInt(0)
              /\ t \notin LabelsOf(km2) => outcome.value.topics[t].version2 = RatInt(0)
    /\ ReturnedFrom("analyze_topic_changes") =>
        /\ DOMAIN outcome.value = LabelsOf(km1) \cup LabelsOf(km2)
        /\ \A t \in DOMAIN outcome.value :
              \E f \in FreqsOf(km1, Len(version1.rows), t),
                 g \in FreqsOf(km2, Len(version2.rows), t) :
                    outcome.value[t] = RatSub(f, g)

\* compare_versions returned and each run found a label the other did not
C2_Witness ==
    /\ ReturnedFrom("compare_versions")
    /\ LabelsOf(km1) \ LabelsOf(km2) # {}
    /\ LabelsOf(km2) \ LabelsOf(km1) # {}

\* C3 (as claimed): compare_versions on an empty population fails with
\* InsufficientDataError.
C3_EmptyRaisesInsufficientData ==
    (call = "compare_versions" /\ (~NonEmpty(version1) \/ ~NonEmpty(version2)))
        => (outcome.status = "raised" /\ outcome.exc = "InsufficientDataError")

\* C5 (as claimed): when the topic extractor or the theme tagger raises inside
\* compare_versions on non-empty populations, the call fails with
\* UpstreamAnalysisError.
C5_ExtractorFailureIsUpstreamError ==
    (/\ call = "compare_versions"
     /\ NonEmpty(version1) /\ NonEmpty(version2)
     /\ \/ extract_topics(Column(version1, "text"), DefaultTopics, km1).status = "raised"
        \/ extract_topics(Column(version2, "text"), DefaultTopics, km2).status = "raised"
        \/ tag_reviews_by_theme(Column(version1, "text")).status = "raised"
        \/ tag_reviews_by_theme(Column(version2, "text")).status = "raised")
        => (outcome.status = "raised" /\ outcome.exc = "UpstreamAnalysisError")

\* C8 (as claimed): whenever the text-generation collaborator fails, the
\* summarizer entry point that called it propagates a failure to its caller.
C8_CollaboratorFailurePropagates ==
    (sCall # "none" /\ sCollab = "failed") => sOut.status = "raised"

\* the length a text contributes to the review block of summarize_themes
ContributedLen(text) ==
    IF text.len > MAX_REVIEW_LENGTH THEN MAX_REVIEW_LENGTH + EllipsisLen ELSE text.len

\* the running total after the first j texts, each counted with its two newlines
RECURSIVE RunningTotal(_, _)
RunningTotal(texts, j) ==
    IF j = 0 THEN 0
    ELSE RunningTotal(texts, j - 1) + ContributedLen(texts[j]) + NewlinesLen

\* C9: the review block of summarize_themes is at most 20000 characters long,
\* holds a prefix of the input list in order, and stops exactly at the first
\* text that would push the running total over 20000; nothing after that text
\* is taken.
C9_BlockIsPrefixUnderCeiling ==
    sCall = "summarize_themes" =>
        LET block == sSent.blocks[1]
            texts == sArgs.texts
            k     == Len(block.pieces)
        IN  /\ block.length <= MAX_TOTAL_LENGTH
            /\ k <= Len(texts)
            /\ \A j \in 1..k : block.pieces[j].src = j
            /\ \A j \in 1..k : RunningTotal(texts, j) <= MAX_TOTAL_LENGTH
            /\ k < Len(texts) => RunningTotal(texts, k + 1) > MAX_TOTAL_LENGTH
            /\ block.length =
                  IF k = 0 THEN 0 ELSE RunningTotal(texts, k) - NewlinesLen

\* summarize_themes reached the ceiling, dropped the text that reached it and
\* a later text that would have fitted in the room left
C9_Witness ==
    /\ sCall = "summarize_themes"
    /\ LET texts == sArgs.texts
           k     == Len(sSent.blocks[1].pieces)
       IN  /\ k > 0
           /\ k + 1 < Len(texts)
           /\ \E j \in (k + 2)..Len(texts) :
                 RunningTotal(texts, k) + ContributedLen(texts[j]) + NewlinesLen
                    <= MAX_TOTAL_LENGTH

\* C10: in the review block of summarize_themes a text longer than 1000
\* characters appears as its first 1000 characters followed by "...", and a
\* text of at most 1000 characters appears unchanged.
C10_TruncationAtReviewLimit ==
    sCall = "summarize_themes" =>
        \A j \in 1..Len(sSent.blocks[1].pieces) :
            LET piece == sSent.blocks[1].pieces[j]
                text  == sArgs.texts[piece.src]
            IN  IF text.len > MAX_REVIEW_LENGTH
                THEN piece.take = MAX_REVIEW_LENGTH /\ piece.marker
                ELSE piece.take = text.len /\ ~piece.marker

\* the block holds a text of 1001 characters, cut, and one of exactly 1000
\* characters, kept whole
C10_Witness ==
    /\ sCall = "summarize_themes"
    /\ \E i, j \in 1..Len(sSent.blocks[1].pieces) :
          /\ sArgs.texts[i].len = MAX_REVIEW_LENGTH + 1
          /\ sSent.blocks[1].pieces[i].marker
          /\ sArgs.texts[j].len = MAX_REVIEW_LENGTH
          /\ ~sSent.blocks[1].pieces[j].marker

\* the last run showed `what` for period or application `on`
HasShown(what, on) ==
    \E i \in DOMAIN page.log :
        page.log[i].kind = "shown" /\ page.log[i].what = what /\ page.log[i].on = on

HasInvoked(what, on) ==
    \E i \in DOMAIN page.log :
        page.log[i].kind = "invoked" /\ page.log[i].what = what /\ page.log[i].on = on

\* the last period run got its reviews and analysed them
AnalysisReached ==
    /\ page.run = "period"
    /\ page.reviews[0] # <<>>
    /\ analyze_all(page.reviews[0]).status = "returned"

\* the number of analysed reviews dated within the period
SliceLen(period) == Len(Between(analyze_all(page.reviews[0]).value, period).rows)

\* what the analysis block invokes and shows once the slices are cut
SliceWork ==
    {"display_period_summary", "tag_reviews_by_theme", "extract_topics", "period_data",
     "analyze_period_changes", "period_summary.metrics", "period_summary.themes",
     "period_summary.topics", "summary_box"}

\* C4: in a period-comparison run whose first or second slice holds no review,
\* the run ends stopped on the warning, and no period summary, theme tagging,
\* topic extraction or narrative generation has been invoked on either slice.
C4_EmptySliceStopsBeforeAnalysis ==
    (AnalysisReached /\ (SliceLen(sidebar.period1) = 0 \/ SliceLen(sidebar.period2) = 0))
        => /\ page.status = "stopped"
           /\ page.log[Len(page.log)].kind = "shown"
           /\ page.log[Len(page.log)].what = "warning"
           /\ \A i \in DOMAIN page.log : page.log[i].what \notin SliceWork

\* a run stopped on the warning about the second period while the first
\* period's slice held reviews
C4_Witness ==
    /\ AnalysisReached
    /\ SliceLen(sidebar.period1) > 0
    /\ SliceLen(sidebar.period2) = 0
    /\ page.status = "stopped"
    /\ HasShown("warning", 2)

\* the summary of period k was begun and did not come to show its topics
SummaryFailed(k) ==
    HasInvoked("display_period_summary", k) /\ ~HasShown("period_summary.topics", k)

\* C6 (as claimed): when an extraction fails while the summary of one period
\* is rendered, the run still renders the other period's summary and the
\* sections after the summaries, and completes without being stopped.
C6_ExtractionFailureSkipsOnlyThatPeriod ==
    \A k \in {1, 2} :
        (page.run = "period" /\ SummaryFailed(k))
            => /\ page.status = "completed"
               /\ HasShown("period_summary.metrics", 3 - k)
               /\ HasShown("success", 0)
               /\ HasShown("raw_reviews", 1)
               /\ HasShown("raw_reviews", 2)

\* the last run asked the collaborator for the narrative about `on` (an
\* application, or 0 for the comparison) and the collaborator failed
NarrativeFailed(on) ==
    \E i \in DOMAIN page.log :
        /\ page.log[i].kind = "invoked"
        /\ page.log[i].what \in {"summarize_themes", "analyze_period_changes"}
        /\ page.log[i].on = on
        /\ page.log[i].content = "failed"

\* C7 (as claimed): in a run where narrative generation failed, the local
\* statistics are shown all the same: both period summaries in a period run;
\* in a two-application run the Key Metrics cards of the application whose
\* narrative failed, and the comparison cards when the comparison's failed.
C7_NarrativeFailureKeepsStatistics ==
    /\ (page.run = "period" /\ NarrativeFailed(0)) =>
          \A k \in {1, 2} : /\ HasShown("period_summary.metrics", k)
                            /\ HasShown("period_summary.themes", k)
                            /\ HasShown("period_summary.topics", k)
    /\ page.run = "main" =>
          /\ NarrativeFailed(0) =>
                \E i \in DOMAIN page.log :
                    page.log[i] = Shown("metric_card", 0, "Sentiment")
          /\ \A k \in {1, 2} :
                NarrativeFailed(k) =>
                    \E i \in DOMAIN page.log :
                        page.log[i] = Shown("metric_card", k, "Review Count")

\* the review text a prompt holds, over all its blocks
RECURSIVE TotalReviewText(_)
TotalReviewText(blocks) ==
    IF blocks = <<>> THEN 0
    ELSE SumPieceLen(Head(blocks).pieces) + TotalReviewText(Tail(blocks))

\* C11 (as claimed): every prompt that summarize_themes, compare_apps or
\* analyze_competitors builds from raw review texts holds each text cut to at
\* most 1000 characters (plus the marker), and at most 20000 characters of
\* review text in all.
C11_EveryPromptRespectsCeiling ==
    (sCall \in {"summarize_themes", "compare_apps", "analyze_competitors"}
        /\ sSent # NothingSent)
        => /\ \A b \in DOMAIN sSent.blocks :
                \A j \in DOMAIN sSent.blocks[b].pieces :
                    /\ sSent.blocks[b].pieces[j].take <= MAX_REVIEW_LENGTH
                    /\ PieceLen(sSent.blocks[b].pieces[j]) <= MAX_REVIEW_LENGTH + EllipsisLen
           /\ TotalReviewText(sSent.blocks) <= MAX_TOTAL_LENGTH

\* the lines of a prompt section about key k
LinesAbout(lines, k) == {l \in lines : l.key = k}

\* |b - a| > threshold
Exceeds(a, b, threshold) == ~RatLeq(RatAbs(RatSub(b, a)), threshold)

\* C12: in the prompt of analyze_period_changes every topic line has a delta
\* (second period minus first) whose absolute value is strictly greater than
\* 0.05 and every theme line one strictly greater than 0.1; a key whose delta
\* is exactly the threshold has no line.
C12_DeltaLinesStrictlyAboveThreshold ==
    sCall = "analyze_period_changes" =>
        /\ \A l \in sSent.topic_changes :
              /\ l.delta = RatSub(sArgs.period2_data.topics[l.key],
                                  sArgs.period1_data.topics[l.key])
              /\ Exceeds(l.a, l.b, TOPIC_THRESHOLD)
              /\ RatAbs(l.delta) # TOPIC_THRESHOLD
        /\ \A l \in sSent.theme_changes :
              /\ l.delta = RatSub(sArgs.period2_data.themes[l.key],
                                  sArgs.period1_data.themes[l.key])
              /\ Exceeds(l.a, l.b, THEME_THRESHOLD)
              /\ RatAbs(l.delta) # THEME_THRESHOLD

\* the prompt was built from a topic whose delta is exactly 0.05, which has no
\* line, next to a theme whose delta is above 0.1, which has one
C12_Witness ==
    /\ sCall = "analyze_period_changes"
    /\ \E k \in DOMAIN sArgs.period1_data.topics \cap DOMAIN sArgs.period2_data.topics :
          /\ RatAbs(RatSub(sArgs.period2_data.topics[k], sArgs.period1_data.topics[k]))
                = TOPIC_THRESHOLD
          /\ LinesAbout(sSent.topic_changes, k) = {}
    /\ \E l \in sSent.theme_changes :
          l.key = "UX" /\ Exceeds(l.a, l.b, THEME_THRESHOLD)

\* the frequency of a topic in a period's map, 0 when the period lacks it
FrequencyIn(map, k) == IF k \in DOMAIN map THEN map[k] ELSE RatInt(0)

\* C13 (as claimed): the topic lines of analyze_period_changes range over the
\* union of both periods' topics, a missing side counting as frequency 0: every
\* topic of either period whose two frequencies differ by more than 0.05 has a
\* line in the prompt.
C13_TopicsMergedOverUnion ==
    sCall = "analyze_period_changes" =>
        \A k \in DOMAIN sArgs.period1_data.topics \cup DOMAIN sArgs.period2_data.topics :
            Exceeds(FrequencyIn(sArgs.period1_data.topics, k),
                    FrequencyIn(sArgs.period2_data.topics, k), TOPIC_THRESHOLD)
                => LinesAbout(sSent.topic_changes, k) # {}

\* the last call was a call of cached_summary on a non-empty list of texts
SummaryRequested ==
    /\ cacheCall.entry = "cached_summary"
    /\ cacheCall.request.texts # <<>>

\* the cache file of the last call's request held, before the call, a summary
\* that an earlier call with the very same request had generated and stored
StoredByThisRequest ==
    /\ SummaryRequested
    /\ \E w \in cacheCall.writer : w.request = cacheCall.request

\* C14: once a call has generated and stored summary S for (texts, app_name,
\* kwargs), a later call with the same texts, app_name and kwargs, whose cache
\* directory and file can be read, returns S and does not invoke the summarizer.
C14_StoredSummaryIsReturned ==
    (StoredByThisRequest /\ cacheCall.io \notin {"mkdir_fails", "read_fails"})
        => /\ \A w \in cacheCall.writer : cacheCall.out = Returned(w.summary)
           /\ cacheCall.collab = "not_called"

\* the last of MaxCalls calls, made with the request of an earlier one, got
\* back the summary that call had stored and did not invoke the summarizer
C14_Witness ==
    /\ StoredByThisRequest
    /\ cacheCall.n = MaxCalls
    /\ cacheCall.io = "ok"
    /\ cacheCall.out = Returned(Content("other"))
    /\ cacheCall.collab = "not_called"

\* C15 (as claimed): a call returns a cached value only when the cache file was
\* stored by a call with the identical ordered list of texts, app_name and
\* generation parameters.
C15_HitOnlyForIdenticalRequest ==
    (SummaryRequested /\ cacheCall.collab = "not_called")
        => \E w \in cacheCall.writer : w.request = cacheCall.request

\* what the call returns or raises when it has to generate the summary
GenerationOutcome(answer) ==
    CASE answer = "failed" -> Raised("APIError", "client.chat.completions.create")
      [] answer = "empty"  -> Raised("ValueError", "cached_summary")
      [] OTHER             -> Returned(Content(answer))

\* C16: a call of cached_summary whose cache file is malformed or cannot be
\* read generates a new summary as on a miss, and a call whose write of the
\* cache file fails still returns the generated summary; no call raises unless
\* the summarizer failed or returned nothing.
C16_CacheDiskFailureIsNotFatal ==
    SummaryRequested =>
        /\ (cacheCall.io # "mkdir_fails"
              /\ \/ cacheCall.before.kind = "malformed"
                 \/ cacheCall.io = "read_fails" /\ cacheCall.before.kind # "absent")
              => /\ cacheCall.collab # "not_called"
                 /\ cacheCall.out = GenerationOutcome(cacheCall.answer)
        /\ (cacheCall.io \in {"open_fails", "dump_fails"}
              /\ cacheCall.collab \in {"ok", "other"})
              => cacheCall.out = Returned(Content(cacheCall.answer))
        /\ cacheCall.out.status = "raised" => cacheCall.answer \in {"failed", "empty"}

\* a call found its cache file malformed, generated a summary, failed to write
\* it and returned it
C16_Witness ==
    /\ SummaryRequested
    /\ cacheCall.before.kind = "malformed"
    /\ cacheCall.io = "dump_fails"
    /\ cacheCall.collab = "other"
    /\ cacheCall.out = Returned(Content("other"))

\* C17 (as claimed): a period-comparison run that came to call store_snapshot
\* goes on to the analysis step with the reviews it fetched, whatever the
\* snapshot store did (an existing file that cannot be parsed, a failed write).
C17_SnapshotFailureIsNotFatal ==
    (page.run = "period" /\ HasInvoked("store_snapshot", 0))
        => /\ HasInvoked("analyze_all", 0)
           /\ page.reviews[0] # <<>>

\* the last period run fetched the application's reviews and stored their
\* snapshot, which is still on disk
FetchedAndStored ==
    /\ page.run = "period"
    /\ HasInvoked("fetch_reviews", 0)
    /\ HasInvoked("store_snapshot", 0)
    /\ page.reviews[0] # <<>>
    /\ FileAt(snapshots, TitleOf(sidebar.app_id)).kind = "snapshot"

\* the run that left `p` called the review provider
CalledProvider(p) ==
    \E i \in DOMAIN p.log : p.log[i].kind = "invoked" /\ p.log[i].what = "fetch_reviews"

\* C18 (as claimed): once a run has fetched the reviews of an application and
\* stored their snapshot, a later run on the same day for the same application
\* gets its reviews from load_snapshot and does not call the review provider.
C18_LaterRunLoadsSnapshot ==
    [][FetchedAndStored => (~CalledProvider(page') /\ page'.reviews[0] # <<>>)]_vars

\* the four statistics the comparison is to report
ReportedMetrics == {"review_count", "average_rating", "average_engagement", "reply_rate"}

\* C20 (as claimed): for two non-empty populations the metrics map compare_versions
\* returns holds, for each of review_count, average_rating, average_engagement
\* and reply_rate, an entry with both sides' values and their delta.
C20_MetricsMapHoldsAllFour ==
    (ReturnedFrom("compare_versions") /\ NonEmpty(version1) /\ NonEmpty(version2))
        => \A m \in ReportedMetrics :
              /\ m \in DOMAIN outcome.value.metrics
              /\ {"version1", "version2", "delta"} \subseteq DOMAIN outcome.value.metrics[m]

\* the date of the file name is older than days_to_keep days on the day `now`
OlderThan(name, days_to_keep, now) ==
    name.json /\ name.date.reads /\ name.date.day < now.day - days_to_keep

\* the date of the file name is within the last days_to_keep days
WithinWindow(name, days_to_keep, now) ==
    name.json /\ name.date.reads /\ name.date.day > now.day - days_to_keep

\* C19 (as claimed): after clear_snapshots(days_to_keep) every snapshot file
\* whose date is older than days_to_keep days is gone, and every snapshot file
\* within the window, every file whose date does not read, and every summary
\* cache file is there unchanged.
C19_SweepRemovesExactlyOldSnapshots ==
    page.run = "maintenance" =>
        /\ \A f \in DOMAIN page.before :
              /\ OlderThan(f, page.days_to_keep, sidebar.now) => f \notin DOMAIN snapshots
              /\ (WithinWindow(f, page.days_to_keep, sidebar.now) \/ ~f.date.reads \/ ~f.json)
                    => (f \in DOMAIN snapshots /\ snapshots[f] = page.before[f])
        /\ DOMAIN snapshots \subseteq DOMAIN page.before
        /\ cache = page.cacheBefore

\* the values the provider's records of the first application carry under key
Carried(key) ==
    LET carrying == SelectSeq(provider["com.a"], LAMBDA review : key \in DOMAIN review)
    IN  [i \in 1..Len(carrying) |-> RatInt(carrying[i][key])]

\* C21 (as claimed): the average rating and the average engagement of a
\* population are the means over the reviews whose provider record carries
\* the value; a record that lacks it is not counted as 0.
C21_MissingValuesAreExcludedFromMeans ==
    (call = "get_review_stats" /\ outcome.status = "returned") =>
        /\ Carried("score") # <<>> =>
              outcome.value.average_rating = RatMean(Carried("score"))
        /\ Carried("thumbsUpCount") # <<>> =>
              outcome.value.average_engagement = RatMean(Carried("thumbsUpCount"))

\* C28 (as claimed): compare_versions on two non-empty frames made by
\* analyze_all from provider records never fails on a missing column.
C28_NormalizedFramesHaveEngineColumns ==
    (call = "compare_versions" /\ NonEmpty(version1) /\ NonEmpty(version2)) =>
        ~(outcome.status = "raised" /\ outcome.exc = "KeyError")

\* the arithmetic mean of the per-review sentiment over all reviews of a frame
MeanSentiment(df) == RatMean(Column(df, "sentiment"))

\* C22 (as claimed): the sentiment reported for each population of a
\* comparison is the arithmetic mean of the per-review sentiment over all its
\* reviews, however the reviews are spread over the days, and the sentiment
\* delta is mean(B) - mean(A).
C22_SentimentIsMeanOverAllReviews ==
    /\ ReturnedFrom("compare_versions") =>
          /\ outcome.value.sentiment.version1 = MeanSentiment(version1)
          /\ outcome.value.sentiment.version2 = MeanSentiment(version2)
          /\ outcome.value.sentiment.delta =
                RatSub(MeanSentiment(version2), MeanSentiment(version1))
    /\ (ReturnedFrom("calculate_comparison_metrics")
          /\ NonEmpty(version1) /\ NonEmpty(version2)) =>
          outcome.value.sentiment_diff =
                RatSub(MeanSentiment(version2), MeanSentiment(version1))

\* the version a text names by the pattern that comes first in the list among
\* the patterns its phrases are instances of
NamedVersion(text) ==
    LET First(naming) ==
            IF naming = {} THEN NoVersion
            ELSE Version(text.parts[CHOOSE k \in naming :
                            \A j \in naming :
                                text.parts[k].pattern <= text.parts[j].pattern].version)
    IN  First({k \in 1..Len(text.parts) : text.parts[k].pattern > 0})

\* the indices of the rows a group holds
Members(group) == {group.rows[k]["index"] : k \in 1..Len(group.rows)}

\* C23: extract_version_from_review returns the version captured by the first
\* pattern of the list that matches anywhere in the text, wherever a later
\* pattern matches, and None when none matches; group_reviews_by_version puts
\* each review in the one group of its version and in no group without one.
C23_FirstPatternInPriorityOrderWins ==
    /\ call = "extract_version_from_review" =>
          outcome = Returned(NamedVersion(version1.rows[1]["text"]))
    /\ (call = "group_reviews_by_version" /\ outcome.status = "returned") =>
          /\ \A i \in 1..Len(version1.rows), k \in 1..Len(outcome.value) :
                i \in Members(outcome.value[k].group)
                   <=> NamedVersion(version1.rows[i]["text"]) = Version(outcome.value[k].version)
          /\ \A k, j \in 1..Len(outcome.value) :
                outcome.value[k].version = outcome.value[j].version => k = j

\* a text where "v2.0" stands before "Version 1.10", answered with 1.10
C23_Witness ==
    /\ call = "extract_version_from_review"
    /\ version1.rows[1]["text"].body = "v2.0, Version 1.10"
    /\ outcome = Returned(Version("1.10"))

\* the segments of a version the phrases name
SegmentsOf(version) ==
    Phrases[CHOOSE k \in 1..Len(Phrases) : Phrases[k].version = version].segments

\* a is before b when, at the first segment where they differ, a has the
\* larger integer, or b has ended
NumericallyBefore(a, b) ==
    \E k \in 1..Len(a) :
        /\ \A j \in 1..(k - 1) : j <= Len(b) /\ a[j] = b[j]
        /\ (k > Len(b) \/ a[k] > b[k])

\* C24: the version list offered for selection holds the detected versions in
\* descending order of their dot-separated segments compared as integers.
C24_VersionsSortedNumericallyDescending ==
    (call = "display_version_selector" /\ outcome.status = "returned") =>
        /\ {outcome.value.versions[k] : k \in 1..Len(outcome.value.versions)}
              = {NamedVersion(version1.rows[i]["text"]).value :
                    i \in {j \in 1..Len(version1.rows) :
                             NamedVersion(version1.rows[j]["text"]) # NoVersion}}
        /\ \A k, j \in 1..Len(outcome.value.versions) :
              k < j => NumericallyBefore(SegmentsOf(outcome.value.versions[k]),
                                         SegmentsOf(outcome.value.versions[j]))

\* 2.0 before 1.10 before 1.9
C24_Witness ==
    /\ call = "display_version_selector"
    /\ outcome.status = "returned"
    /\ outcome.value.versions = <<"2.0", "1.10", "1.9">>

\* lo <= r <= hi, r a number
Within(r, lo, hi) == ~IsNaN(r) /\ RatLeq(RatInt(lo), r) /\ RatLeq(r, RatInt(hi))

\* C25: every theme score of tag_reviews_by_theme lies in [0,1]; in a
\* comparison every theme mean lies in [0,1], every theme delta in [-1,1] and,
\* the per-review sentiments lying in [-1,1], every sentiment mean in [-1,1].
C25_ScoresAndMeansAreBounded ==
    /\ ReturnedFrom("tag_reviews_by_theme") =>
          \A i \in 1..Len(outcome.value), theme \in ThemeNames :
              Within(outcome.value[i][theme], 0, 1)
    /\ ReturnedFrom("compare_versions") =>
          /\ \A theme \in ThemeNames :
                /\ Within(outcome.value.themes[theme].version1, 0, 1)
                /\ Within(outcome.value.themes[theme].version2, 0, 1)
                /\ Within(outcome.value.themes[theme].delta, -1, 1)
          /\ \A i \in 1..Len(version1.rows) : Within(version1.rows[i]["sentiment"], -1, 1)
          /\ \A i \in 1..Len(version2.rows) : Within(version2.rows[i]["sentiment"], -1, 1)
          /\ Within(outcome.value.sentiment.version1, -1, 1)
          /\ Within(outcome.value.sentiment.version2, -1, 1)

\* a comparison with a theme that fell, a theme nobody spoke of and a
\* sentiment mean that fell
C25_Witness ==
    /\ ReturnedFrom("compare_versions")
    /\ \E theme \in ThemeNames :
          /\ outcome.value.themes[theme].delta.num < 0
          /\ outcome.value.themes[theme].version1.num > 0
    /\ \E theme \in ThemeNames : outcome.value.themes[theme].version2.num = 0
    /\ outcome.value.sentiment.delta.num < 0

\* the run that left p invoked `what`
InvokedIn(p, what) ==
    \E i \in DOMAIN p.log : p.log[i].kind = "invoked" /\ p.log[i].what = what

\* this step is a run of the period page
PageRan ==
    /\ writing' = writing
    /\ cacheCall' = cacheCall
    /\ <<page, snapshots>>' # <<page, snapshots>>

\* C26 (as claimed): a run that finds a file another run has opened for
\* writing and not yet filled takes nothing from it: load_snapshot and
\* cached_summary treat it as a miss (the reviews are fetched, the summary is
\* generated), and a store_snapshot that finds one does not fail the run,
\* which goes on to the analysis.
C26_PartialFilesAreMisses ==
    [][/\ (PageRan /\ FileAt(snapshots, sidebar.app_id) = Malformed)
            => CalledProvider(page')
       /\ (PageRan /\ FileAt(snapshots, TitleOf(sidebar.app_id)) = Malformed
                   /\ InvokedIn(page', "store_snapshot"))
            => InvokedIn(page', "analyze_all")
       /\ (cacheCall'.n = cacheCall.n + 1 /\ FileAt(cache, SharedPath) = Malformed)
            => cacheCall'.collab # "not_called"]_vars

\* C27 (as claimed): a run of the two-application page that found no snapshot
\* of the first application and fetched a non-empty list for it (it came to
\* the statement after the fetch, line 124) stores the snapshot and goes on to
\* the analysis.
C27_SuccessfulFetchProceedsToAnalysis ==
    (page.run = "main" /\ HasInvoked("fetch_reviews", 1) /\ HasInvoked("app", 1))
        => /\ HasInvoked("store_snapshot", 1)
           /\ HasInvoked("analyze_all", 1)

\* the snapshot file of the application after the last call
StoredNow == FileAt(snapshots, TitleOf("com.a"))

\* C29: a store_snapshot call that finds a readable snapshot and leaves one
\* never leaves fewer reviews in it; it replaces the snapshot only by a
\* strictly larger list, and only when the snapshot held fewer reviews than
\* the requested count.
C29_SnapshotNeverShrinks ==
    (page.run = "store_snapshot" /\ page.before.kind = "snapshot"
                                 /\ StoredNow.kind = "snapshot") =>
        /\ Len(StoredNow.reviews) >= Len(page.before.reviews)
        /\ StoredNow # page.before =>
              /\ Len(StoredNow.reviews) = page.given
              /\ page.given > Len(page.before.reviews)
              /\ Len(page.before.reviews) < page.requested_count

\* a snapshot of one review replaced by a list of two
C29_Witness ==
    /\ page.run = "store_snapshot"
    /\ page.before.kind = "snapshot"
    /\ StoredNow.kind = "snapshot"
    /\ Len(page.before.reviews) = 1
    /\ Len(StoredNow.reviews) = 2
    /\ page.requested_count = RequestedCount

\* this step is a call of cached_summary in which the summarizer was invoked
\* and raised or returned an empty result
GenerationFailed ==
    /\ cacheCall'.n = cacheCall.n + 1
    /\ cacheCall'.entry = "cached_summary"
    /\ cacheCall'.collab \in {"failed", "empty"}

\* C30 (as claimed): when the summarizer raises or returns an empty result,
\* cached_summary raises to its caller and leaves every cache file as it was;
\* no cache file ever holds an empty summary.
C30_FailedGenerationRaisesAndWritesNothing ==
    [][/\ GenerationFailed => (cacheCall'.out.status = "raised" /\ cache' = cache)
       /\ \A path \in DOMAIN cache' :
             cache'[path].kind = "summary" => cache'[path].summary.body # ""]_vars

====
